---- MODULE Spec2Model ----
(***************************************************************************)
(* Hybrid-search request building of the seekdb Go client                  *)
(* (src/client_query.go): the descriptor compiler for metadata filters,    *)
(* the document-query builder, the knn block with its embedding            *)
(* resolution, and buildSearchParm, which assembles them.                  *)
(***************************************************************************)
EXTENDS Integers, Sequences, FiniteSets, TLC

VARIABLES
    pc,          \* "idle" between calls, "done" when a call has returned
    condition,   \* the Filter handed to buildMetadataFilterConditions
    result,      \* what buildMetadataFilterConditions returned for it
    result2,     \* what a second compilation of the same Filter returned
    call,        \* the arguments of the last buildSearchParm call
    ret,         \* what that call returned: [parm, err]
    embedLog,    \* the argument of every Embed call that call made, in order
    call2,       \* a second buildSearchParm call, made beside the first
    ret2,        \* what the second call returned
    heap,        \* the structures the arguments point to, and the client, as
                 \* they stand when the call has returned
    sqlpc,       \* collectionGet / collectionQuery: "idle", "loop" (between
                 \* two query embeddings) or "done"
    sqlcall,     \* the arguments of the collectionGet / collectionQuery call
    embs,        \* collectionQuery: queryEmbeddings, once resolved
    qi,          \* collectionQuery: the index of the next query embedding
    sent,        \* the statements handed to conn.Query, with what came back
    partial,     \* collectionQuery: result, as filled so far
    sqlret,      \* what the call returned: [res, err]
    openRows,    \* the rows handles obtained and not closed
    hspc,        \* transformHybridSearchResults: "idle" or "done"
    hsrows,      \* the rows it is handed: column names, cells, ending
    hsret,       \* what it returned: [res, err]
    schemata,    \* the server's INFORMATION_SCHEMA.SCHEMATA: the schema names
    adminLog,    \* every AdminClient call made so far, with what it returned
    db,          \* RemoteConnection.db: 0 for nil, else the handle it holds
    handles,     \* every *sql.DB opened so far: "open" or "closed"
    connected,   \* EmbeddedConnection.connected
    connLog,     \* every Connection call made so far, with what it returned
    hypc,        \* collectionHybridSearch: "idle" or "done"
    hycall,      \* the arguments of the collectionHybridSearch call
    hylog,       \* the calls it made on its collaborators, in order, each
                 \* with the state of the transaction when it was made
    hytx,        \* the transaction: "none", "active", "committed", "rolled
                 \* back", or "failed" when Commit or Rollback returned an error
    hyret,       \* what the call returned: [res, err]
    routines     \* the goroutines that call Connect and Close on one
                 \* RemoteConnection: where each stands, and the handle it holds

filterVars == <<condition, result, result2>>
buildVars == <<call, ret, embedLog, call2, ret2, heap>>
sqlVars == <<sqlpc, sqlcall, embs, qi, sent, partial, sqlret, openRows>>

transformVars == <<hspc, hsrows, hsret>>
adminVars == <<schemata, adminLog>>
connVars == <<db, handles, connected, connLog>>
hybridVars == <<hypc, hycall, hylog, hytx, hyret>>
raceVars == <<routines>>

vars == <<pc, filterVars, buildVars, sqlVars, transformVars, adminVars, connVars, hybridVars, raceVars>>

\* what the compiler alone, the request builder, and Get and Query leave
\* untouched
otherThanFilter == <<buildVars, sqlVars, transformVars, adminVars, connVars, hybridVars, raceVars>>
otherThanBuild == <<filterVars, sqlVars, transformVars, adminVars, connVars, hybridVars, raceVars>>
otherThanSQL == <<pc, filterVars, buildVars, transformVars, adminVars, connVars, hybridVars, raceVars>>
otherThanTransform == <<pc, filterVars, buildVars, sqlVars, adminVars, connVars, hybridVars, raceVars>>
otherThanAdmin == <<pc, filterVars, buildVars, sqlVars, transformVars, connVars, hybridVars, raceVars>>
otherThanHybrid == <<pc, filterVars, buildVars, sqlVars, transformVars, adminVars, connVars, raceVars>>
otherThanRace ==
    <<pc, filterVars, buildVars, sqlVars, transformVars, adminVars, hybridVars, connected, connLog>>
otherThanConn == <<pc, filterVars, buildVars, sqlVars, transformVars, adminVars, hybridVars, raceVars>>

(***************************************************************************)
(* Bounds of the model.                                                    *)
(***************************************************************************)
MaxInLen == 2       \* longest $in / $nin list
MaxOps == 2         \* most operators in one arbitrary field mapping
MaxChildren == 2    \* most children of one $and / $or
MaxTexts == 1       \* most knn.QueryTexts
MaxIds == 2         \* most ids handed to collectionGet
MaxRows == 2        \* most rows a statement of collectionGet returns
MaxEmbeddings == 2  \* most query embeddings of one collectionQuery
MaxCols == 3        \* most columns of the rows of a hybrid search
MaxCalls == 3       \* most calls made on one AdminClient, or on the connections
MaxGoroutines == 2  \* the goroutines that share one RemoteConnection
MaxHandles == 3     \* most handles sql.Open gives to those goroutines

(***************************************************************************)
(* Go values held in an interface{}: every value carries its dynamic type. *)
(* A map is a function from its keys to values; a nil map and an empty map *)
(* are both the empty function, since the code only applies len, index and *)
(* range to them.                                                          *)
(***************************************************************************)
Str(s) == [k |-> "str", v |-> s]
Num(n) == [k |-> "num", v |-> n]
Nil == [k |-> "nil"]
List(xs) == [k |-> "list", v |-> xs]       \* []interface{}
Map(m) == [k |-> "map", v |-> m]           \* map[string]interface{}
FilterV(m) == [k |-> "filter", v |-> m]    \* a value of the named type Filter
EmptyMap == [x \in {} |-> Nil]

len(m) == Cardinality(DOMAIN m)

(***************************************************************************)
(* The key universe of the filters, and the orders in which a range        *)
(* statement may visit the keys of a map.  Go leaves that order            *)
(* unspecified: one compilation visits its maps in one of IterOrders.      *)
(* Only the relative order of keys whose handling appends to the result    *)
(* shows in the output (the field keys, and $ne, $in, $nin inside a field   *)
(* mapping); the other operators write to slots of their own.              *)
(***************************************************************************)
Fields == {"score", "tag"}
LogicalKeys == {"$and", "$or", "$not"}
RangeOps == {"$gt", "$gte", "$lt", "$lte"}
SupportedOps == {"$eq", "$ne", "$in", "$nin"} \cup RangeOps
UnknownOp == "$like"
OpKeys == SupportedOps \cup {UnknownOp}

Perms(S) == {p \in [1..Cardinality(S) -> S] : \A i, j \in DOMAIN p : i # j => p[i] # p[j]}

IterOrder(f, a) ==
    f \o a \o <<"$eq", "$gt", "$gte", "$lt", "$lte", UnknownOp, "$and", "$or", "$not">>

IterOrders == {IterOrder(f, a) : f \in Perms(Fields), a \in Perms({"$ne", "$in", "$nin"})}

\* the orders that differ on field keys alone: all that shows when no
\* mapping holds two of $ne, $in, $nin
FieldOrders == {IterOrder(f, <<"$ne", "$in", "$nin">>) : f \in Perms(Fields)}

\* for key, value := range m, under the iteration order `order`
rangeKeys(m, order) == SelectSeq(order, LAMBDA key : key \in DOMAIN m)

(***************************************************************************)
(* buildMetadataFilterConditions: a Filter to the list of descriptor       *)
(* clauses.  A clause is a JSON object, modelled as the function from its  *)
(* keys to their values; a list is a sequence.                             *)
(***************************************************************************)
\* (a variant that keys a clause by the bare field name)
FieldName_Bare(key) == key

\* fmt.Sprintf("(JSON_EXTRACT(metadata, '$.%s'))", key)
FieldName(key) == "(JSON_EXTRACT(metadata, '$." \o key \o "'))"

Term(fieldName, value) == [term |-> (fieldName :> value)]

\* (a variant that prepends where the code appends: the clauses come out in
\* reverse list order)
TermList_Reversed(fieldName, values) ==
    [i \in 1..Len(values) |-> Term(fieldName, values[Len(values) + 1 - i])]

\* the term clauses that the $in and $nin cases build from the list values
RECURSIVE TermList(_, _)
TermList(fieldName, values) ==
    IF Len(values) = 0 THEN <<>>
    ELSE <<Term(fieldName, Head(values))>> \o TermList(fieldName, Tail(values))

\* (a variant that starts the range mapping afresh for every bound)
SetBound_Fresh(rangeConditions, bound, opValue) == bound :> opValue

\* rangeConditions[bound] = opValue
SetBound(rangeConditions, bound, opValue) == (bound :> opValue) @@ rangeConditions

\* one iteration of the switch over an operator of a field mapping; acc
\* holds result, rangeConditions and termValue
OperatorCase(op, opValue, fieldName, acc) ==
    CASE op = "$eq" -> [acc EXCEPT !.termValue = opValue]
      [] op = "$ne" ->
            [acc EXCEPT !.result =
                Append(@, [bool |-> [must_not |-> <<Term(fieldName, opValue)>>]])]
      [] op = "$lt" -> [acc EXCEPT !.rangeConditions = SetBound(@, "lt", opValue)]
      [] op = "$lte" -> [acc EXCEPT !.rangeConditions = SetBound(@, "lte", opValue)]
      [] op = "$gt" -> [acc EXCEPT !.rangeConditions = SetBound(@, "gt", opValue)]
      [] op = "$gte" -> [acc EXCEPT !.rangeConditions = SetBound(@, "gte", opValue)]
      [] op = "$in" ->
            IF opValue.k = "list" /\ Len(opValue.v) > 0
            THEN [acc EXCEPT !.result =
                    Append(@, [bool |-> [should |-> TermList(fieldName, opValue.v)]])]
            ELSE acc
      [] op = "$nin" ->
            IF opValue.k = "list" /\ Len(opValue.v) > 0
            THEN [acc EXCEPT !.result =
                    Append(@, [bool |-> [must_not |-> TermList(fieldName, opValue.v)]])]
            ELSE acc
      [] OTHER -> acc

\* for op, opValue := range valueMap { switch op {...} }
RECURSIVE OperatorLoop(_, _, _, _)
OperatorLoop(ops, valueMap, fieldName, acc) ==
    IF Len(ops) = 0 THEN acc
    ELSE OperatorLoop(Tail(ops), valueMap, fieldName,
                      OperatorCase(Head(ops), valueMap[Head(ops)], fieldName, acc))

\* the body of the loop over the field keys: what one key appends to result
FieldCondition(key, value, order, res) ==
    LET fieldName == FieldName(key)
        isValueMap == value.k \in {"map", "filter"}
    IN  IF isValueMap
        THEN LET acc == OperatorLoop(rangeKeys(value.v, order), value.v, fieldName,
                            [result |-> res, rangeConditions |-> EmptyMap, termValue |-> Nil])
             IN  IF len(acc.rangeConditions) > 0
                 THEN Append(acc.result, [range |-> (fieldName :> acc.rangeConditions)])
                 ELSE IF acc.termValue # Nil
                 THEN Append(acc.result, Term(fieldName, acc.termValue))
                 ELSE acc.result
        ELSE Append(res, Term(fieldName, value))

\* for key, value := range condition { ... }
RECURSIVE FieldLoop(_, _, _, _)
FieldLoop(keys, cond, order, res) ==
    IF Len(keys) = 0 THEN res
    ELSE IF Head(keys) \in LogicalKeys
    THEN FieldLoop(Tail(keys), cond, order, res)
    ELSE FieldLoop(Tail(keys), cond, order,
                   FieldCondition(Head(keys), cond[Head(keys)], order, res))

RECURSIVE buildMetadataFilterConditions(_, _)

\* the loop over the children of $and / $or: children that are no
\* map[string]interface{} are passed over
RECURSIVE SubFilters(_, _)
SubFilters(conditions, order) ==
    IF Len(conditions) = 0 THEN <<>>
    ELSE (IF Head(conditions).k = "map"
          THEN buildMetadataFilterConditions(Head(conditions).v, order)
          ELSE <<>>)
         \o SubFilters(Tail(conditions), order)

\* the $and / $or branch: one bool clause over the children's clauses
LogicalList(value, occur, order) ==
    IF value.k = "list"
    THEN LET subs == SubFilters(value.v, order)
         IN  IF Len(subs) > 0 THEN <<[bool |-> (occur :> subs)]>> ELSE <<>>
    ELSE <<>>

buildMetadataFilterConditions(cond, order) ==
    IF len(cond) = 0 THEN <<>>
    ELSE IF "$and" \in DOMAIN cond THEN LogicalList(cond["$and"], "must", order)
    ELSE IF "$or" \in DOMAIN cond THEN LogicalList(cond["$or"], "should", order)
    ELSE IF "$not" \in DOMAIN cond
    THEN IF cond["$not"].k = "map"
         THEN LET notFilters == buildMetadataFilterConditions(cond["$not"].v, order)
              IN  IF Len(notFilters) > 0
                  THEN <<[bool |-> [must_not |-> notFilters]]>>
                  ELSE <<>>
         ELSE <<>>
    ELSE FieldLoop(rangeKeys(cond, order), cond, order, <<>>)

\* buildMetadataFilterForSearchParm
buildMetadataFilterForSearchParm(where, order) ==
    IF len(where) = 0 THEN <<>> ELSE buildMetadataFilterConditions(where, order)

(***************************************************************************)
(* The filters the compiler is run on.                                     *)
(***************************************************************************)
SeqsUpTo(S, n) == UNION {[1..i -> S] : i \in 0..n}

\* the values an operator is given: a scalar for a comparison, a list (or,
\* wrongly typed, a scalar) for $in / $nin, null as well for $eq
OpValues(op) ==
    CASE op = "$eq" -> {Str("ml"), Nil}
      [] op = "$ne" -> {Str("python")}
      [] op = "$gt" -> {Num(80)}
      [] op = "$gte" -> {Num(90)}
      [] op = "$lt" -> {Num(99)}
      [] op = "$lte" -> {Num(95)}
      [] op \in {"$in", "$nin"} ->
            {List(xs) : xs \in SeqsUpTo({Str("ml"), Str("python")}, MaxInLen)}
                \cup {Str("ml")}
      [] OTHER -> {Str("m%")}

MapsOver(S) ==
    {m \in [S -> UNION {OpValues(op) : op \in S}] : \A op \in S : m[op] \in OpValues(op)}

\* field mappings: any operators up to MaxOps of them, and every subset of
\* the range operators, alone or beside $eq
OperatorMaps ==
    UNION {MapsOver(S) : S \in {T \in SUBSET OpKeys : Cardinality(T) <= MaxOps}}
        \cup UNION {MapsOver(S) : S \in SUBSET RangeOps}
        \cup UNION {MapsOver(S \cup {"$eq"}) : S \in SUBSET RangeOps}

FieldValues ==
    {Str("ml"), Num(90)} \cup {Map(m) : m \in OperatorMaps}
        \cup {FilterV(m) : m \in MapsOver({"$gte"}) \cup MapsOver({"$in"})}

\* the value of a field beside another field in one mapping
PlainValues ==
    {Str("ml"), Map("$gte" :> Num(90)), Map("$lte" :> Num(95)),
     Map("$ne" :> Str("python")), Map(UnknownOp :> Str("m%")),
     Map(("$ne" :> Str("python")) @@ ("$in" :> List(<<Str("ml")>>)))}

FieldFilters ==
    {f :> v : f \in Fields, v \in FieldValues}
        \cup {("score" :> v) @@ ("tag" :> w) : v, w \in PlainValues}

\* the children of a logical operator: field conditions, logical operators
\* over them, a child written as a Filter, and a child that is no mapping
LeafChildren ==
    {Map(f :> v) : f \in Fields, v \in {Str("ml"), Map("$gte" :> Num(90)),
                                         Map("$lte" :> Num(95)), Map(UnknownOp :> Str("m%"))}}
Children ==
    LeafChildren
        \cup {Map(("score" :> Map("$gte" :> Num(90))) @@ ("tag" :> Str("ml"))),
              Map("$or" :> List(<<Map("tag" :> Str("ml")), Map("score" :> Map("$lt" :> Num(99)))>>)),
              Map("$not" :> Map("tag" :> Str("ml"))),
              Map("$and" :> List(<<>>)),
              FilterV("tag" :> Str("ml")),
              Str("ml")}

LogicalFilters ==
    {op :> List(cs) : op \in {"$and", "$or"}, cs \in SeqsUpTo(Children, MaxChildren)}
        \cup {"$not" :> c : c \in Children}
        \cup {op :> Str("ml") : op \in {"$and", "$or"}}

\* one mapping that holds a logical operator beside field keys or beside
\* another logical operator
MixedFilters ==
    {(op :> v) @@ m :
        op \in LogicalKeys,
        v \in {List(<<Map("score" :> Map("$gte" :> Num(90)))>>), Map("score" :> Num(90))},
        m \in {"tag" :> Str("ml"),
               "$or" :> List(<<Map("tag" :> Str("ml"))>>),
               "$not" :> Map("tag" :> Str("ml"))}}

Wheres == {EmptyMap} \cup FieldFilters \cup LogicalFilters \cup MixedFilters

(***************************************************************************)
(* The descriptor compiler on its own: one action compiles a filter.       *)
(***************************************************************************)
NoCall == [made |-> FALSE]
NoRet == [made |-> FALSE]

\* the schemas ListDatabases leaves out of its listing; a schema name is held
\* as the pieces of its text
SystemSchemas ==
    {<<"information_schema">>, <<"mysql">>, <<"performance_schema">>, <<"sys">>}

Init ==
    /\ pc = "idle"
    /\ condition = EmptyMap
    /\ result = <<>> /\ result2 = <<>>
    /\ call = NoCall /\ ret = NoRet /\ embedLog = <<>> /\ heap = NoCall
    /\ sqlpc = "idle" /\ sqlcall = NoCall /\ embs = <<>> /\ qi = 1
    /\ sent = <<>> /\ partial = <<>> /\ sqlret = NoRet /\ openRows = 0
    /\ hspc = "idle" /\ hsrows = NoCall /\ hsret = NoRet
    /\ schemata = SystemSchemas /\ adminLog = <<>>
    /\ db = 0 /\ handles = <<>> /\ connected = FALSE /\ connLog = <<>>
    /\ hypc = "idle" /\ hycall = NoCall /\ hylog = <<>> /\ hytx = "none" /\ hyret = NoRet
    /\ routines = [g \in 1..MaxGoroutines |-> [pc |-> "idle", local |-> 0]]
    /\ call2 = NoCall /\ ret2 = NoRet

CompileFilter ==
    /\ pc = "idle"
    /\ \E c \in Wheres, order \in IterOrders :
        /\ condition' = c
        /\ result' = buildMetadataFilterConditions(c, order)
    /\ pc' = "done"
    /\ UNCHANGED <<result2, otherThanFilter>>

\* the caller takes the result; the next call starts afresh
ReturnFilter ==
    /\ pc = "done"
    /\ pc' = "idle"
    /\ condition' = EmptyMap
    /\ result' = <<>>
    /\ UNCHANGED <<result2, otherThanFilter>>

NextFilter == CompileFilter \/ ReturnFilter

SpecFilter == Init /\ [][NextFilter]_vars

\* the same Filter compiled twice: each compilation ranges over its maps in
\* an order of its own
CompileTwice ==
    /\ pc = "idle"
    /\ \E c \in Wheres, order1, order2 \in IterOrders :
        /\ condition' = c
        /\ result' = buildMetadataFilterConditions(c, order1)
        /\ result2' = buildMetadataFilterConditions(c, order2)
    /\ pc' = "twice"
    /\ UNCHANGED otherThanFilter

ReturnTwice ==
    /\ pc = "twice"
    /\ pc' = "idle"
    /\ condition' = EmptyMap
    /\ result' = <<>>
    /\ result2' = <<>>
    /\ UNCHANGED otherThanFilter

NextTwice == CompileTwice \/ ReturnTwice

SpecTwice == Init /\ [][NextTwice]_vars

(***************************************************************************)
(* buildDocumentQuery and buildQueryExpression: the query clause.  A nil   *)
(* map is Nil; a string built by strings.Join is the concatenation.        *)
(***************************************************************************)
\* strings.Join(elems, sep)
RECURSIVE Join(_, _)
Join(elems, sep) ==
    IF Len(elems) = 0 THEN ""
    ELSE IF Len(elems) = 1 THEN Head(elems)
    ELSE Head(elems) \o sep \o Join(Tail(elems), sep)

QueryString(query) == [query_string |-> [fields |-> <<"document">>, query |-> query]]

\* the loop that gathers the $contains strings of the children of $and / $or
RECURSIVE ContainsQueries(_)
ContainsQueries(conditions) ==
    IF Len(conditions) = 0 THEN <<>>
    ELSE LET cond == Head(conditions)
         IN  (IF /\ cond.k = "map"
                 /\ "$contains" \in DOMAIN cond.v
                 /\ cond.v["$contains"].k = "str"
              THEN <<cond.v["$contains"].v>>
              ELSE <<>>)
             \o ContainsQueries(Tail(conditions))

\* the $and / $or branch of buildDocumentQuery: Nil when it returns nothing
JoinedContains(whereDocument, key, sep) ==
    IF key \in DOMAIN whereDocument /\ whereDocument[key].k = "list"
    THEN LET containsQueries == ContainsQueries(whereDocument[key].v)
         IN  IF Len(containsQueries) > 0
             THEN QueryString(Str(Join(containsQueries, sep)))
             ELSE Nil
    ELSE Nil

buildDocumentQuery(whereDocument) ==
    IF len(whereDocument) = 0 THEN Nil
    ELSE IF "$contains" \in DOMAIN whereDocument
    THEN QueryString(whereDocument["$contains"])
    ELSE IF JoinedContains(whereDocument, "$and", " ") # Nil
    THEN JoinedContains(whereDocument, "$and", " ")
    ELSE JoinedContains(whereDocument, "$or", " OR ")

buildQueryExpression(query, order) ==
    LET whereDocument == query.WhereDocument
        where == query.Where
        filterConditions == buildMetadataFilterForSearchParm(where, order)
        docQuery == buildDocumentQuery(whereDocument)
    IN  IF len(whereDocument) = 0 /\ len(where) > 0 /\ Len(filterConditions) > 0
        THEN IF /\ Len(filterConditions) = 1
                /\ \/ "range" \in DOMAIN filterConditions[1]
                   \/ "term" \in DOMAIN filterConditions[1]
             THEN filterConditions[1]
             ELSE [bool |-> [filter |-> filterConditions]]
        ELSE IF len(whereDocument) > 0 /\ docQuery # Nil
        THEN IF Len(filterConditions) > 0
             THEN [bool |-> [must |-> <<docQuery>>, filter |-> filterConditions]]
             ELSE docQuery
        ELSE Nil

(***************************************************************************)
(* buildKNNExpression: the knn block.  An error is the chain of what it    *)
(* wraps, outermost first; no error is the empty chain.                    *)
(***************************************************************************)
NoError == <<>>
ErrEmbeddingFunctionRequired == "ErrEmbeddingFunctionRequired"
ErrEmbed == "embedding failed"

\* the embedding collaborator: Embed(texts) -> (vectors, error).  What a
\* call returns is the collaborator's affair: one vector for each text, an
\* error, no vector at all, or vectors of length zero.
EmbFunc == [k |-> "embFunc"]
TextVector(text) == IF text = "x" THEN <<2, 3>> ELSE <<1>>
EmbedOutcomes(texts) ==
    {[vectors |-> [i \in 1..Len(texts) |-> TextVector(texts[i])], err |-> NoError],
     [vectors |-> <<>>, err |-> <<ErrEmbed>>],
     [vectors |-> <<>>, err |-> NoError],
     [vectors |-> [i \in 1..Len(texts) |-> <<>>], err |-> NoError]}


\* (a variant in which the query texts win over the query embeddings)
UsesQueryEmbeddings_TextsFirst(knn) ==
    Len(knn.QueryEmbeddings) > 0 /\ Len(knn.QueryTexts) = 0

\* knn.QueryEmbeddings != nil && len(knn.QueryEmbeddings) > 0
UsesQueryEmbeddings(knn) == Len(knn.QueryEmbeddings) > 0

\* (a variant that goes on without a query vector)
NoEmbeddingFunction_Silent ==
    [queryVector |-> <<>>, err |-> NoError, embedCalls |-> <<>>]

\* if embFunc == nil { return nil, fmt.Errorf("...: %w", ErrEmbeddingFunctionRequired) }
NoEmbeddingFunction ==
    [queryVector |-> <<>>,
     err |-> <<"knn.query_texts provided but no embedding function",
               ErrEmbeddingFunctionRequired>>,
     embedCalls |-> <<>>]

\* lines 640-659: the query vector, the error, and the Embed calls made;
\* embedded is what Embed returns when it is called
ResolveQueryVector(knn, embFunc, embedded) ==
    IF UsesQueryEmbeddings(knn)
    THEN [queryVector |-> knn.QueryEmbeddings[1], err |-> NoError, embedCalls |-> <<>>]
    ELSE IF Len(knn.QueryTexts) > 0
    THEN IF embFunc = Nil
         THEN NoEmbeddingFunction
         ELSE LET called == <<[texts |-> knn.QueryTexts, returned |-> embedded]>>
              IN  IF embedded.err # NoError
                  THEN [queryVector |-> <<>>,
                        err |-> <<"failed to generate embeddings from query_texts">>
                                    \o embedded.err,
                        embedCalls |-> called]
                  ELSE [queryVector |-> IF Len(embedded.vectors) > 0
                                        THEN embedded.vectors[1]
                                        ELSE <<>>,
                        err |-> NoError,
                        embedCalls |-> called]
    ELSE [queryVector |-> <<>>,
          err |-> <<"knn requires either query_embeddings or query_texts">>,
          embedCalls |-> <<>>]

DefaultK == 10

\* lines 661-689: the block built around a resolved query vector
KNNBlock(knn, queryVector, order) ==
    IF Len(queryVector) = 0 THEN Nil
    ELSE LET k == IF knn.NResults <= 0 THEN DefaultK ELSE knn.NResults
             knnExpr == [field |-> "embedding", k |-> k, query_vector |-> queryVector]
             filterConditions == buildMetadataFilterForSearchParm(knn.Where, order)
         IN  IF Len(filterConditions) > 0
             THEN ("filter" :> filterConditions) @@ knnExpr
             ELSE knnExpr

buildKNNExpression(knn, embFunc, embedded, order) ==
    LET r == ResolveQueryVector(knn, embFunc, embedded)
    IN  IF r.err # NoError
        THEN [expr |-> Nil, err |-> r.err, embedCalls |-> r.embedCalls]
        ELSE [expr |-> KNNBlock(knn, r.queryVector, order), err |-> NoError,
              embedCalls |-> r.embedCalls]

(***************************************************************************)
(* buildSearchParm: the request.                                           *)
(***************************************************************************)
\* the query part
QueryPart(query, order) ==
    IF query # Nil /\ buildQueryExpression(query, order) # Nil
    THEN "query" :> buildQueryExpression(query, order)
    ELSE EmptyMap

\* the size part
SizePart(nResults) == IF nResults > 0 THEN "size" :> nResults ELSE EmptyMap

\* (a variant that writes rank_constant whatever K is)
RankPart_AlwaysConstant(rank) ==
    IF rank # Nil /\ rank.RRF # Nil
    THEN "rank" :> ("rrf" :> ("rank_constant" :> rank.RRF.K))
    ELSE EmptyMap

\* the rank part
RankPart(rank) ==
    IF rank # Nil
    THEN LET rrfExpr == IF rank.RRF.K > 0 THEN "rank_constant" :> rank.RRF.K ELSE EmptyMap
             rankExpr == IF rank.RRF # Nil THEN "rrf" :> rrfExpr ELSE EmptyMap
         IN  IF len(rankExpr) > 0 THEN "rank" :> rankExpr ELSE EmptyMap
    ELSE EmptyMap

\* the knn part: the block, the error, the Embed calls
KnnPart(knn, embFunc, embedded, order) ==
    IF knn # Nil
    THEN buildKNNExpression(knn, embFunc, embedded, order)
    ELSE [expr |-> Nil, err |-> NoError, embedCalls |-> <<>>]

\* the request put together from its parts; nil and the error when the knn
\* part failed
SearchParm(queryPart, k, nResults, rank) ==
    IF k.err # NoError
    THEN [parm |-> Nil, err |-> k.err, embedCalls |-> k.embedCalls]
    ELSE [parm |-> queryPart
                    @@ (IF k.expr # Nil THEN "knn" :> k.expr ELSE EmptyMap)
                    @@ SizePart(nResults)
                    @@ RankPart(rank),
          err |-> NoError,
          embedCalls |-> k.embedCalls]

\* (a variant that filters the knn by the query's metadata filter when the
\* knn has none of its own)
buildSearchParm_SharedWhere(query, knn, rank, nResults, embFunc, embedded, order) ==
    SearchParm(QueryPart(query, order),
               KnnPart(IF knn # Nil /\ query # Nil /\ len(knn.Where) = 0
                       THEN [knn EXCEPT !.Where = query.Where]
                       ELSE knn,
                       embFunc, embedded, order),
               nResults, rank)

buildSearchParm(query, knn, rank, nResults, embFunc, embedded, order) ==
    SearchParm(QueryPart(query, order), KnnPart(knn, embFunc, embedded, order),
               nResults, rank)

(***************************************************************************)
(* The arguments buildSearchParm is called with.                           *)
(***************************************************************************)
BuildWheres ==
    {EmptyMap,
     "tag" :> Str("ml"),
     ("score" :> Map("$gte" :> Num(90))) @@ ("tag" :> Map("$ne" :> Str("python"))),
     "score" :> Map(UnknownOp :> Str("m%"))}

Contains(text) == Map("$contains" :> Str(text))
Regex(pattern) == Map("$regex" :> Str(pattern))

WhereDocuments ==
    {EmptyMap,
     Contains("machine").v,
     Regex("m.*").v,
     "$and" :> List(<<Contains("machine"), Contains("learning")>>),
     "$or" :> List(<<Contains("machine"), Contains("learning")>>),
     "$and" :> List(<<Contains("machine"), Regex("m.*")>>),
     "$not" :> Contains("machine")}

Queries ==
    {Nil} \cup {[WhereDocument |-> wd, Where |-> w, NResults |-> 10] :
                    wd \in WhereDocuments, w \in BuildWheres}

QueryEmbeddingLists == {<<>>, <<<<1>>>>, <<<<>>>>, <<<<2, 3>>, <<1>>>>, <<<<>>, <<1>>>>}

KNNs ==
    {Nil} \cup {[QueryTexts |-> t, QueryEmbeddings |-> e, Where |-> w, NResults |-> n] :
                    t \in SeqsUpTo({"x"}, MaxTexts), e \in QueryEmbeddingLists,
                    w \in BuildWheres, n \in {0, 5}}

Ranks == {Nil, [RRF |-> Nil], [RRF |-> [K |-> -1]], [RRF |-> [K |-> 0]], [RRF |-> [K |-> 60]]}

EmbFuncs == {Nil, EmbFunc}

Calls ==
    {[made |-> TRUE, query |-> q, knn |-> k, rank |-> r, nResults |-> n, embFunc |-> e] :
        q \in Queries, k \in KNNs, r \in Ranks, n \in {0, 5}, e \in EmbFuncs}

\* what Embed may return in a call with these arguments: it can only be
\* called for a knn with query texts, by a build with an embedding function
Embedded(c) ==
    IF c.knn # Nil /\ Len(c.knn.QueryTexts) > 0 /\ c.embFunc # Nil
    THEN EmbedOutcomes(c.knn.QueryTexts)
    ELSE {Nil}

Returned(r) == [made |-> TRUE, parm |-> r.parm, err |-> r.err]

\* the receiver of the build methods; they use it to call one another only
Client == [filterBuilder |-> "filterBuilder", conn |-> "conn"]

\* (a variant that writes the default k back into the knn it was handed)
HeapAfter_StoresK(c) ==
    [made |-> TRUE, query |-> c.query, rank |-> c.rank, client |-> Client,
     knn |-> IF c.knn # Nil /\ c.knn.NResults <= 0
             THEN [c.knn EXCEPT !.NResults = DefaultK]
             ELSE c.knn]

\* what the query, knn and rank structures and the client hold when the
\* build has returned: the build reads them into locals (queryVector, k,
\* filterConditions) and fresh maps, and assigns through none of them
HeapAfter(c) ==
    [made |-> TRUE, query |-> c.query, knn |-> c.knn, rank |-> c.rank, client |-> Client]

(***************************************************************************)
(* Building one request.                                                   *)
(***************************************************************************)
BuildSearchParm ==
    /\ pc = "idle"
    /\ \E c \in Calls, order \in FieldOrders :
        \E embedded \in Embedded(c) :
        LET r == buildSearchParm(c.query, c.knn, c.rank, c.nResults, c.embFunc,
                                 embedded, order)
        IN  /\ call' = c
            /\ ret' = Returned(r)
            /\ embedLog' = r.embedCalls
            /\ heap' = HeapAfter(c)
    /\ pc' = "done"
    /\ UNCHANGED <<call2, ret2, otherThanBuild>>

\* the caller takes the request; the next call starts afresh
Return ==
    /\ pc = "done"
    /\ pc' = "idle"
    /\ call' = NoCall /\ ret' = NoRet /\ embedLog' = <<>> /\ heap' = NoCall
    /\ UNCHANGED <<call2, ret2, otherThanBuild>>

Next == BuildSearchParm \/ Return

Spec == Init /\ [][Next]_vars

(***************************************************************************)
(* Two requests built side by side from calls that differ in the filter    *)
(* of one sub-search only.  Both builds see the same Embed outcome and the *)
(* same iteration order.                                                   *)
(***************************************************************************)
PairCalls ==
    {c \in Calls : /\ c.rank = Nil
                   /\ c.nResults = 5
                   /\ c.knn # Nil => /\ c.knn.NResults = 5
                                     /\ c.knn.QueryEmbeddings \in {<<>>, <<<<1>>>>}}

\* the calls that differ from c in the filters of the query alone, or in
\* the filter of the knn alone
Variants(c) ==
    {d \in PairCalls :
        /\ d # c
        /\ d.embFunc = c.embFunc
        /\ \/ /\ d.knn = c.knn
              /\ c.query # Nil /\ d.query # Nil
           \/ /\ d.query = c.query
              /\ c.knn # Nil /\ d.knn # Nil
              /\ d.knn.QueryTexts = c.knn.QueryTexts
              /\ d.knn.QueryEmbeddings = c.knn.QueryEmbeddings}

BuildPair ==
    /\ pc = "idle"
    /\ \E c \in PairCalls, order \in FieldOrders :
        \E d \in Variants(c), embedded \in Embedded(c) :
        LET r == buildSearchParm(c.query, c.knn, c.rank, c.nResults, c.embFunc,
                                 embedded, order)
            r2 == buildSearchParm(d.query, d.knn, d.rank, d.nResults, d.embFunc,
                                  embedded, order)
        IN  /\ call' = c /\ ret' = Returned(r)
            /\ call2' = d /\ ret2' = Returned(r2)
            /\ embedLog' = r.embedCalls
            /\ heap' = HeapAfter(c)
    /\ pc' = "done"
    /\ UNCHANGED otherThanBuild

ReturnPair ==
    /\ pc = "done"
    /\ pc' = "idle"
    /\ call' = NoCall /\ ret' = NoRet /\ embedLog' = <<>> /\ heap' = NoCall
    /\ call2' = NoCall /\ ret2' = NoRet
    /\ UNCHANGED otherThanBuild

NextPair == BuildPair \/ ReturnPair

SpecPair == Init /\ [][NextPair]_vars

(***************************************************************************)
(* Properties of the request builder.                                      *)
(***************************************************************************)
\* errors.Is(err, target)
Is(err, target) == \E i \in 1..Len(err) : err[i] = target

HasKnn(r) == r.err = NoError /\ "knn" \in DOMAIN r.parm
HasQuery(r) == r.err = NoError /\ "query" \in DOMAIN r.parm

\* the request carries v as its query vector; a vector of length zero is
\* carried by no block at all
KnnVectorIs(r, v) ==
    IF Len(v) = 0 THEN ~HasKnn(r) ELSE HasKnn(r) /\ r.parm["knn"]["query_vector"] = v

TextsOnly(c) ==
    /\ c.made
    /\ c.knn # Nil
    /\ Len(c.knn.QueryTexts) > 0
    /\ Len(c.knn.QueryEmbeddings) = 0

\* C1: a knn with query texts, no query embeddings and no embedding function
\* makes the build return an error that wraps ErrEmbeddingFunctionRequired,
\* and no request.
C1_EmbeddingFunctionRequired ==
    (TextsOnly(call) /\ call.embFunc = Nil)
        => /\ Is(ret.err, ErrEmbeddingFunctionRequired)
           /\ ret.parm = Nil

C1_Witness ==
    /\ TextsOnly(call) /\ call.embFunc = Nil
    /\ pc = "done"
    /\ ret.err # NoError

C2_WitnessTexts ==
    /\ TextsOnly(call) /\ call.embFunc # Nil
    /\ Len(embedLog) = 1
    /\ HasKnn(ret)

\* whether a document filter holds a $regex predicate, at the top or in a
\* child of a logical operator
HasRegex(whereDocument) ==
    \/ "$regex" \in DOMAIN whereDocument
    \/ \E key \in DOMAIN whereDocument \cap {"$and", "$or"} :
           /\ whereDocument[key].k = "list"
           /\ \E i \in 1..Len(whereDocument[key].v) :
                  /\ whereDocument[key].v[i].k = "map"
                  /\ "$regex" \in DOMAIN whereDocument[key].v[i].v
    \/ /\ "$not" \in DOMAIN whereDocument
       /\ whereDocument["$not"].k = "map"
       /\ "$regex" \in DOMAIN whereDocument["$not"].v

ErrUnsupportedInTarget == "UnsupportedInTarget"

\* C3: a hybrid search whose query.WhereDocument holds $regex fails with an
\* UnsupportedInTarget error.
C3_RegexFails ==
    (call.made /\ call.query # Nil /\ HasRegex(call.query.WhereDocument))
        => Is(ret.err, ErrUnsupportedInTarget)

\* whether a filter holds a field mapping with an operator key that is not
\* one of the eight supported
HasUnknownOperator(where) ==
    \E f \in DOMAIN where \ LogicalKeys :
        /\ where[f].k \in {"map", "filter"}
        /\ DOMAIN where[f].v \ SupportedOps # {}

\* C8: a field mapping with an operator key outside the supported eight
\* makes the build of a hybrid search request fail with an error.
C8_UnknownOperatorFails ==
    (/\ call.made
     /\ \/ call.query # Nil /\ HasUnknownOperator(call.query.Where)
        \/ call.knn # Nil /\ HasUnknownOperator(call.knn.Where))
        => ret.err # NoError

\* C9: every request returned without error holds a query clause or a knn
\* block.
C9_QueryOrKnn ==
    (call.made /\ ret.err = NoError)
        => ("query" \in DOMAIN ret.parm \/ "knn" \in DOMAIN ret.parm)

\* the knn block and the query clause of what a build returned
KnnOf(r) == IF HasKnn(r) THEN r.parm["knn"] ELSE Nil
QueryOf(r) == IF HasQuery(r) THEN r.parm["query"] ELSE Nil

C10_WitnessKnn ==
    /\ call.made /\ call2.made
    /\ call.query = call2.query
    /\ HasKnn(ret) /\ HasKnn(ret2) /\ KnnOf(ret) # KnnOf(ret2)
    /\ HasQuery(ret)

\* C11: the request holds a rank section exactly when a rank config with an
\* RRF entry is supplied; the section holds rrf alone, and rrf holds
\* rank_constant, with the value K, exactly when K > 0.
C11_RankSection ==
    (call.made /\ ret.err = NoError)
        => /\ "rank" \in DOMAIN ret.parm <=> (call.rank # Nil /\ call.rank.RRF # Nil)
           /\ "rank" \in DOMAIN ret.parm
                => /\ DOMAIN ret.parm["rank"] = {"rrf"}
                   /\ ret.parm["rank"]["rrf"] =
                        IF call.rank.RRF.K > 0
                        THEN "rank_constant" :> call.rank.RRF.K
                        ELSE EmptyMap

C11_Witness ==
    /\ call.made /\ ret.err = NoError
    /\ call.rank # Nil /\ call.rank.RRF # Nil /\ call.rank.RRF.K <= 0
    /\ "rank" \in DOMAIN ret.parm
    /\ ret.parm["rank"]["rrf"] = EmptyMap

C19_WitnessError ==
    /\ call.made /\ heap.made
    /\ ret.err # NoError
    /\ call.query # Nil /\ call.query.Where # EmptyMap

\* C23: when a knn argument is given and the build returns no error, the
\* request holds a knn block with a query vector that is not empty.
C23_KnnNeverDropped ==
    (call.made /\ call.knn # Nil /\ ret.err = NoError)
        => /\ HasKnn(ret)
           /\ Len(ret.parm["knn"]["query_vector"]) > 0

\* the clauses that where compiles to, and a query clause that holds them:
\* alone, as the filter of a bool, or beside a document query
IncludesConditions(queryClause, conditions) ==
    \/ Len(conditions) = 1 /\ queryClause = conditions[1]
    \/ /\ "bool" \in DOMAIN queryClause
       /\ "filter" \in DOMAIN queryClause.bool
       /\ queryClause.bool.filter = conditions

\* C27: when query.Where compiles to at least one condition, the request
\* holds a query clause that includes those conditions, whatever
\* query.WhereDocument holds.
C27_WhereAlwaysApplied ==
    (call.made /\ call.query # Nil /\ ret.err = NoError)
        => \A order \in FieldOrders :
            Len(buildMetadataFilterForSearchParm(call.query.Where, order)) > 0
                => /\ HasQuery(ret)
                   /\ \E o \in FieldOrders :
                        IncludesConditions(ret.parm["query"],
                            buildMetadataFilterForSearchParm(call.query.Where, o))

(***************************************************************************)
(* Properties of the descriptor compiler.                                  *)
(***************************************************************************)
Compiled == pc = "done" /\ condition # EmptyMap

\* a filter that is a mapping of field keys alone
IsFieldFilter(cond) == DOMAIN cond \cap LogicalKeys = {}

IsMapping(value) == value.k \in {"map", "filter"}

\* the range bounds a field mapping gives, keyed as the descriptor keys them
BoundKey(op) ==
    CASE op = "$gt" -> "gt" [] op = "$gte" -> "gte" [] op = "$lt" -> "lt" [] op = "$lte" -> "lte"
GivenBounds(m) ==
    [b \in {BoundKey(op) : op \in DOMAIN m \cap RangeOps} |->
        m[CHOOSE op \in DOMAIN m \cap RangeOps : BoundKey(op) = b]]

IsRangeOn(clause, key) ==
    "range" \in DOMAIN clause /\ DOMAIN clause.range = {FieldName(key)}

\* C4: a field mapping that holds range operators compiles to exactly one
\* range node for its field, and that node carries every bound given, with
\* its value, and no other.
C4_OneRangePerMapping ==
    (Compiled /\ IsFieldFilter(condition))
        => \A f \in DOMAIN condition :
            (IsMapping(condition[f]) /\ DOMAIN condition[f].v \cap RangeOps # {})
                => /\ Cardinality({i \in 1..Len(result) : IsRangeOn(result[i], f)}) = 1
                   /\ \A i \in 1..Len(result) :
                        IsRangeOn(result[i], f)
                            => result[i].range[FieldName(f)] = GivenBounds(condition[f].v)

C4_Witness ==
    /\ Compiled /\ IsFieldFilter(condition)
    /\ \E f \in DOMAIN condition :
        /\ IsMapping(condition[f])
        /\ {"$gte", "$lte"} \subseteq DOMAIN condition[f].v
        /\ \E i \in 1..Len(result) : IsRangeOn(result[i], f)

\* the number of range nodes for a field in a list of clauses, at any depth
RECURSIVE RangeCount(_, _)
RangeCount(clauses, key) ==
    IF Len(clauses) = 0 THEN 0
    ELSE LET clause == Head(clauses)
             here == IF IsRangeOn(clause, key) THEN 1
                     ELSE IF "bool" \in DOMAIN clause
                     THEN LET occur == CHOOSE o \in DOMAIN clause.bool : TRUE
                          IN  RangeCount(clause.bool[occur], key)
                     ELSE 0
         IN  here + RangeCount(Tail(clauses), key)

\* C5: the compiled output of any metadata filter holds at most one range
\* node for any field.
C5_OneRangePerField ==
    Compiled => \A f \in Fields : RangeCount(result, f) <= 1

\* the term clauses for the values of a list, in list order
TermsOf(key, values) == [i \in 1..Len(values) |-> [term |-> (FieldName(key) :> values[i])]]

IsShould(clause) == "bool" \in DOMAIN clause /\ "should" \in DOMAIN clause.bool

HasInList(value) ==
    /\ IsMapping(value)
    /\ "$in" \in DOMAIN value.v
    /\ value.v["$in"].k = "list"
    /\ Len(value.v["$in"].v) >= 1

\* C6: an $in list of n >= 1 values compiles to one bool.should that holds
\* exactly n term clauses, one for each value, in list order.
C6_InList ==
    (Compiled /\ IsFieldFilter(condition))
        => /\ \A f \in DOMAIN condition :
                HasInList(condition[f])
                    => Cardinality({i \in 1..Len(result) :
                            /\ IsShould(result[i])
                            /\ result[i].bool.should = TermsOf(f, condition[f].v["$in"].v)}) = 1
           /\ Cardinality({i \in 1..Len(result) : IsShould(result[i])})
                = Cardinality({f \in DOMAIN condition : HasInList(condition[f])})

C6_Witness ==
    /\ Compiled /\ IsFieldFilter(condition)
    /\ \E f \in DOMAIN condition :
        /\ HasInList(condition[f])
        /\ Len(condition[f].v["$in"].v) = MaxInLen
        /\ condition[f].v["$in"].v[1] # condition[f].v["$in"].v[MaxInLen]
        /\ \E i \in 1..Len(result) : IsShould(result[i])

\* {"$or":[{"score":{"$gte":90}},{"tag":"ml"}]}
ScoreOrTag ==
    "$or" :> List(<<Map("score" :> Map("$gte" :> Num(90))), Map("tag" :> Str("ml"))>>)

\* C7 as stated: that filter compiles to exactly
\* {"bool":{"should":[{"range":{"score":{"gte":90}}},{"term":{"tag":"ml"}}]}},
\* the fields keyed by the names score and tag.
C7_KeyedByName ==
    (pc = "done" /\ condition = ScoreOrTag)
        => result = <<[bool |-> [should |->
                        <<[range |-> ("score" :> ("gte" :> Num(90)))],
                          [term |-> ("tag" :> Str("ml"))]>>]]>>

\* C7, amended: that filter compiles to exactly one clause, a bool.should of
\* the range node and the term node in the given order, the fields keyed by
\* the JSON-extraction expressions (JSON_EXTRACT(metadata, '$.score')) and
\* (JSON_EXTRACT(metadata, '$.tag')).
C7_KeyedByExtraction ==
    (pc = "done" /\ condition = ScoreOrTag)
        => result = <<[bool |-> [should |->
                        <<[range |-> ("(JSON_EXTRACT(metadata, '$.score'))" :> ("gte" :> Num(90)))],
                          [term |-> ("(JSON_EXTRACT(metadata, '$.tag'))" :> Str("ml"))]>>]]>>

C7_Witness == pc = "done" /\ condition = ScoreOrTag /\ Len(result) = 1

\* the bool occurrence a logical operator compiles to
Occur(key) ==
    CASE key = "$and" -> "must" [] key = "$or" -> "should" [] key = "$not" -> "must_not"

\* the children of a logical operator: the elements of the list of $and and
\* $or, the one value of $not
ChildrenOf(cond, key) ==
    IF key = "$not" THEN <<cond[key]>>
    ELSE IF cond[key].k = "list" THEN cond[key].v ELSE <<>>

\* the compiled clauses of the children that are filter mappings, in child
\* order
RECURSIVE ChildClauses(_, _)
ChildClauses(children, order) ==
    IF Len(children) = 0 THEN <<>>
    ELSE (IF IsMapping(Head(children))
          THEN buildMetadataFilterConditions(Head(children).v, order)
          ELSE <<>>)
         \o ChildClauses(Tail(children), order)

\* C20: a filter that is one logical operator compiles to a single bool
\* clause (must for $and, should for $or, must_not for $not) over the
\* compiled clauses of its children in child order, and to no clause at all
\* when the children compile to nothing.
C20_LogicalOperators ==
    (pc = "done" /\ \E key \in LogicalKeys : DOMAIN condition = {key})
        => LET key == CHOOSE k \in LogicalKeys : DOMAIN condition = {k}
           IN  \E order \in IterOrders :
                LET subs == ChildClauses(ChildrenOf(condition, key), order)
                IN  result = IF Len(subs) > 0
                             THEN <<[bool |-> (Occur(key) :> subs)]>>
                             ELSE <<>>

\* the clause that stands for operator op of the field mapping m of field key
OperatorClause(key, m, op) ==
    CASE op = "$eq" -> Term(FieldName(key), m[op])
      [] op = "$ne" -> [bool |-> [must_not |-> <<Term(FieldName(key), m[op])>>]]
      [] op = "$in" -> [bool |-> [should |-> TermsOf(key, m[op].v)]]
      [] op = "$nin" -> [bool |-> [must_not |-> TermsOf(key, m[op].v)]]

\* an operator that has a condition to give: a comparison with a value, a
\* list operator with a list that is not empty
GivesCondition(m, op) ==
    CASE op \in {"$eq", "$ne"} -> m[op] # Nil
      [] op \in {"$in", "$nin"} -> m[op].k = "list" /\ Len(m[op].v) >= 1
      [] OTHER -> op \in RangeOps

\* C21: every supported operator of a field mapping is represented in the
\* compiled clauses as a condition on that field: a range operator as its
\* bound in a range node of the field, any other as its own clause; $eq
\* beside a range operator is among them.
C21_EveryOperatorKept ==
    (Compiled /\ IsFieldFilter(condition))
        => \A f \in DOMAIN condition :
            IsMapping(condition[f])
                => \A op \in DOMAIN condition[f].v \cap SupportedOps :
                    GivesCondition(condition[f].v, op)
                        => \E i \in 1..Len(result) :
                            IF op \in RangeOps
                            THEN /\ IsRangeOn(result[i], f)
                                 /\ BoundKey(op) \in DOMAIN result[i].range[FieldName(f)]
                                 /\ result[i].range[FieldName(f)][BoundKey(op)] = condition[f].v[op]
                            ELSE result[i] = OperatorClause(f, condition[f].v, op)

\* what the entry of key alone compiles to, under one iteration order
AloneClauses(cond, key, order) == buildMetadataFilterConditions(key :> cond[key], order)

\* C22: when one mapping holds a logical operator beside field keys or
\* beside another logical operator, every top-level entry contributes: the
\* clauses its entry compiles to on its own are all in the output.
C22_EveryKeyContributes ==
    (Compiled /\ DOMAIN condition \cap LogicalKeys # {} /\ len(condition) >= 2)
        => \A key \in DOMAIN condition :
            \E order \in IterOrders :
                \A i \in 1..Len(AloneClauses(condition, key, order)) :
                    \E j \in 1..Len(result) :
                        result[j] = AloneClauses(condition, key, order)[i]

\* C26: compiling the same metadata filter twice yields the same list of
\* clauses in the same order.
C26_Deterministic ==
    pc = "twice" => result = result2

(***************************************************************************)
(* collectionGet and collectionQuery: the statement, its arguments and the *)
(* rows.  A statement is the sequence of its tokens, a placeholder being   *)
(* the token "?"; a clause of the filter builder is a token sequence too,  *)
(* the empty sequence being the empty string.                              *)
(***************************************************************************)
FieldID == "_id"
FieldDocument == "document"
FieldEmbedding == "embedding"
FieldMetadata == "metadata"
TableNamePrefix == "c$v1$"
GetTableName(collectionName) == TableNamePrefix \o collectionName

DistanceFuncName(distance) ==
    CASE distance = "l2" -> "l2_distance"
      [] distance = "cosine" -> "cosine_distance"
      [] distance = "inner_product" -> "inner_product"
      [] OTHER -> "l2_distance"

ErrInvalidParameter == "ErrInvalidParameter"
ErrQuery == "query failed"
ErrScan == "scan failed"
ErrFilter == "invalid filter"

\* strings.Join over pieces of statement text
RECURSIVE JoinTokens(_, _)
JoinTokens(parts, sep) ==
    IF Len(parts) = 0 THEN <<>>
    ELSE IF Len(parts) = 1 THEN Head(parts)
    ELSE Head(parts) \o <<sep>> \o JoinTokens(Tail(parts), sep)

\* vectorToString: "[" + the %v of each element, joined by "," + "]"
vectorToString(vector) ==
    "[" \o Join([i \in 1..Len(vector) |-> ToString(vector[i])], ",") \o "]"

\* conditions and args before any condition is added
NoConditions == [conditions |-> <<>>, args |-> <<>>, err |-> NoError]

\* collectionGet: the condition on the ids, one placeholder and one
\* argument for each id
IdCondition(ids, acc) ==
    IF Len(ids) > 0
    THEN [acc EXCEPT
            !.conditions = Append(@, <<FieldID, "IN", "(">>
                                     \o JoinTokens([i \in 1..Len(ids) |-> <<"?">>], ",")
                                     \o <<")">>),
            !.args = @ \o [i \in 1..Len(ids) |-> Str(ids[i])]]
    ELSE acc

\* (a variant that appends clause and arguments also when the clause is empty)
AddFilter_ArgsAlways(filter, built, acc) ==
    IF acc.err # NoError \/ filter = Nil THEN acc
    ELSE IF built.err # NoError THEN [acc EXCEPT !.err = built.err]
    ELSE [acc EXCEPT !.conditions = Append(@, built.clause), !.args = @ \o built.args]

\* one filter of the options: the builder is called for a filter that is
\* not nil; its error ends the call, its clause and arguments are appended
\* when the clause is not empty
AddFilter(filter, built, acc) ==
    IF acc.err # NoError \/ filter = Nil THEN acc
    ELSE IF built.err # NoError THEN [acc EXCEPT !.err = built.err]
    ELSE IF built.clause # <<>>
    THEN [acc EXCEPT !.conditions = Append(@, built.clause), !.args = @ \o built.args]
    ELSE acc

WhereClause(conditions) ==
    IF Len(conditions) > 0 THEN <<"WHERE">> \o JoinTokens(conditions, "AND") ELSE <<>>

Columns == <<FieldID, ",", FieldDocument, ",", FieldMetadata, ",", FieldEmbedding>>

GetSQL(tableName, whereClause) ==
    <<"SELECT">> \o Columns \o <<"FROM", tableName>> \o whereClause
        \o <<"LIMIT", "?", "OFFSET", "?">>

QuerySQL(distanceFunc, vectorStr, tableName, whereClause) ==
    LET dist == <<distanceFunc, "(", FieldEmbedding, ",", "'" \o vectorStr \o "'", ")">>
    IN  <<"SELECT">> \o Columns \o <<",">> \o dist \o <<"AS", "distance">>
            \o <<"FROM", tableName>> \o whereClause
            \o <<"ORDER", "BY">> \o dist \o <<"APPROXIMATE", "LIMIT", "?">>

DefaultLimit == 1000

\* (a variant that puts limit and offset before the filter arguments)
GetArgs_LimitFirst(args, limit, offset) == <<Num(limit), Num(offset)>> \o args

\* append(args, limit, opts.Offset)
GetArgs(args, limit, offset) == args \o <<Num(limit), Num(offset)>>

\* Metadata.FromJSON and json.Unmarshal into []float32, on the column texts
\* the rows of the model hold
FromJSON(text) ==
    CASE text \in {"", "{}"} -> [ok |-> TRUE, v |-> EmptyMap]
      [] text = "{\"tag\":\"ml\"}" -> [ok |-> TRUE, v |-> "tag" :> Str("ml")]
      [] OTHER -> [ok |-> FALSE, v |-> Nil]

UnmarshalEmbedding(text) ==
    CASE text = "[1]" -> [ok |-> TRUE, v |-> <<1>>]
      [] text = "[2]" -> [ok |-> TRUE, v |-> <<2>>]
      [] OTHER -> [ok |-> FALSE, v |-> Nil]

\* the loop over the rows of collectionGet: metadata and embedding are
\* appended when their text parses
GetRows(rows) ==
    LET withMetadata == SelectSeq(rows, LAMBDA r : FromJSON(r.metadataJSON).ok)
        withEmbedding == SelectSeq(rows, LAMBDA r : UnmarshalEmbedding(r.embeddingJSON).ok)
    IN  [IDs |-> [i \in 1..Len(rows) |-> rows[i].id],
         Documents |-> [i \in 1..Len(rows) |-> rows[i].document],
         Metadatas |-> [i \in 1..Len(withMetadata) |-> FromJSON(withMetadata[i].metadataJSON).v],
         Embeddings |-> [i \in 1..Len(withEmbedding) |->
                            UnmarshalEmbedding(withEmbedding[i].embeddingJSON).v]]

\* scanQueryResults: every list gets one entry for each row
scanQueryResults(rows) ==
    [ids |-> [i \in 1..Len(rows) |-> rows[i].id],
     distances |-> [i \in 1..Len(rows) |-> rows[i].distance],
     documents |-> [i \in 1..Len(rows) |-> rows[i].document],
     metadatas |-> [i \in 1..Len(rows) |-> FromJSON(rows[i].metadataJSON).v],
     embeddings |-> [i \in 1..Len(rows) |-> UnmarshalEmbedding(rows[i].embeddingJSON).v]]

\* collectionGet, given what conn.Query hands back for its statement
collectionGet(c, reply) ==
    LET acc == AddFilter(c.WhereDocument, c.documentBuilt,
                    AddFilter(c.Where, c.whereBuilt, IdCondition(c.ids, NoConditions)))
        limit == IF c.Limit = 0 THEN DefaultLimit ELSE c.Limit
        stmt == [sql |-> GetSQL(GetTableName(c.collectionName), WhereClause(acc.conditions)),
                 args |-> GetArgs(acc.args, limit, c.Offset),
                 reply |-> reply]
    IN  IF acc.err # NoError
        THEN [sent |-> <<>>, res |-> Nil, err |-> acc.err]
        ELSE IF reply.err # NoError
        THEN [sent |-> <<stmt>>, res |-> Nil, err |-> <<"failed to get documents">> \o reply.err]
        ELSE IF reply.end = "scan"
        THEN [sent |-> <<stmt>>, res |-> Nil, err |-> <<ErrScan>>]
        ELSE [sent |-> <<stmt>>, res |-> GetRows(reply.rows), err |-> NoError]

\* collectionQuery, its head: queryEmbeddings from the options, else from
\* Embed over the query texts
ResolveQueryEmbeddings(c, embedded) ==
    IF c.QueryEmbeddings # Nil
    THEN [embeddings |-> c.QueryEmbeddings.v, err |-> NoError]
    ELSE IF Len(c.queryTexts) > 0
    THEN IF c.embFunc = Nil
         THEN [embeddings |-> <<>>, err |-> <<ErrEmbeddingFunctionRequired>>]
         ELSE IF embedded.err # NoError
         THEN [embeddings |-> <<>>,
               err |-> <<"failed to generate query embeddings">> \o embedded.err]
         ELSE [embeddings |-> embedded.vectors, err |-> NoError]
    ELSE [embeddings |-> <<>>,
          err |-> <<ErrInvalidParameter, "must provide query_texts or query_embeddings">>]

\* make([][]T, n) for each of the five lists
NewQueryResult(n) ==
    [IDs |-> [i \in 1..n |-> <<>>], Distances |-> [i \in 1..n |-> <<>>],
     Documents |-> [i \in 1..n |-> <<>>], Metadatas |-> [i \in 1..n |-> <<>>],
     Embeddings |-> [i \in 1..n |-> <<>>]]

\* (a variant that returns on a failed scan before it closes the rows)
QueryRound_LeaksOnScanError(c, queryEmb, reply) ==
    LET acc == AddFilter(c.WhereDocument, c.documentBuilt,
                    AddFilter(c.Where, c.whereBuilt, NoConditions))
        stmt == [sql |-> QuerySQL(DistanceFuncName(c.distance), vectorToString(queryEmb),
                                  GetTableName(c.collectionName), WhereClause(acc.conditions)),
                 args |-> Append(acc.args, Num(c.nResults)),
                 reply |-> reply]
    IN  IF acc.err # NoError
        THEN [sent |-> <<>>, err |-> acc.err, opened |-> 0, closed |-> 0]
        ELSE IF reply.err # NoError
        THEN [sent |-> <<stmt>>, err |-> <<"failed to query collection">> \o reply.err,
              opened |-> 0, closed |-> 0]
        ELSE IF reply.end = "scan"
        THEN [sent |-> <<stmt>>, err |-> <<ErrScan>>, opened |-> 1, closed |-> 0]
        ELSE [sent |-> <<stmt>>, err |-> NoError, opened |-> 1, closed |-> 1,
              scanned |-> scanQueryResults(reply.rows)]

\* collectionQuery, one round of its loop, given what conn.Query hands back
\* for the statement of this query embedding
QueryRound(c, queryEmb, reply) ==
    LET acc == AddFilter(c.WhereDocument, c.documentBuilt,
                    AddFilter(c.Where, c.whereBuilt, NoConditions))
        stmt == [sql |-> QuerySQL(DistanceFuncName(c.distance), vectorToString(queryEmb),
                                  GetTableName(c.collectionName), WhereClause(acc.conditions)),
                 args |-> Append(acc.args, Num(c.nResults)),
                 reply |-> reply]
    IN  IF acc.err # NoError
        THEN [sent |-> <<>>, err |-> acc.err, opened |-> 0, closed |-> 0]
        ELSE IF reply.err # NoError
        THEN [sent |-> <<stmt>>, err |-> <<"failed to query collection">> \o reply.err,
              opened |-> 0, closed |-> 0]
        ELSE IF reply.end = "scan"
        THEN [sent |-> <<stmt>>, err |-> <<ErrScan>>, opened |-> 1, closed |-> 1]
        ELSE [sent |-> <<stmt>>, err |-> NoError, opened |-> 1, closed |-> 1,
              scanned |-> scanQueryResults(reply.rows)]

(***************************************************************************)
(* What collectionGet and collectionQuery are called with, and what their  *)
(* collaborators hand back.  The filter builder is outside this code: for  *)
(* a filter it returns a clause with its arguments, or an error.  A reply  *)
(* of conn.Query is an error, or rows that end with the last row ("eof"),  *)
(* with an error of the iteration after the rows listed ("err": Next       *)
(* returns false), or with a row that Scan fails on ("scan").              *)
(***************************************************************************)
Built(clause, args) == [clause |-> clause, args |-> args, err |-> NoError]

WhereBuilds ==
    {Built(<<>>, <<>>),
     Built(<<"(JSON_EXTRACT(metadata,'$.category'))", "=", "?">>, <<Str("AI")>>),
     Built(<<"(", "(JSON_EXTRACT(metadata,'$.page'))", ">=", "?", "AND",
             "(JSON_EXTRACT(metadata,'$.page'))", "<=", "?", ")">>, <<Num(1), Num(5)>>),
     Built(<<>>, <<Str("AI")>>),
     Built(<<"(JSON_EXTRACT(metadata,'$.category'))", "=", "?">>, <<>>),
     [clause |-> <<>>, args |-> <<>>, err |-> <<ErrFilter>>]}

DocumentBuilds ==
    {Built(<<>>, <<>>),
     Built(<<FieldDocument, "LIKE", "?">>, <<Str("%machine%")>>),
     [clause |-> <<>>, args |-> <<>>, err |-> <<ErrFilter>>]}

GoodRow ==
    [id |-> "a", document |-> "doc a", metadataJSON |-> "{\"tag\":\"ml\"}",
     embeddingJSON |-> "[1]", distance |-> 1]
BadMetadataRow ==
    [id |-> "b", document |-> "doc b", metadataJSON |-> "{bad",
     embeddingJSON |-> "[2]", distance |-> 2]
BadEmbeddingRow ==
    [id |-> "c", document |-> "doc c", metadataJSON |-> "{}",
     embeddingJSON |-> "bad", distance |-> 3]

RowKinds == {GoodRow, BadMetadataRow, BadEmbeddingRow}
RowSeqs == SeqsUpTo(RowKinds, MaxRows)
QueryRowSeqs == {<<>>, <<GoodRow>>, <<BadMetadataRow, GoodRow>>, <<BadEmbeddingRow>>}

Replies(rowSeqs) ==
    {[err |-> <<ErrQuery>>]}
        \cup {[err |-> NoError, rows |-> r, end |-> e] :
                r \in rowSeqs, e \in {"eof", "err", "scan"}}

IdLists == {[i \in 1..n |-> "id" \o ToString(i)] : n \in 0..MaxIds}
EmbeddingLists == {[i \in 1..n |-> <<i>>] : n \in 0..MaxEmbeddings}

SomeWhere == "category" :> Str("AI")
SomeWhereDocument == "$contains" :> Str("machine")

GetCalls ==
    {c \in [made : {TRUE}, op : {"get"}, collectionName : {"docs"}, ids : IdLists,
            Where : {Nil, SomeWhere}, whereBuilt : {Nil} \cup WhereBuilds,
            WhereDocument : {Nil, SomeWhereDocument},
            documentBuilt : {Nil} \cup DocumentBuilds,
            Limit : {0, 5}, Offset : {0, 2}] :
        /\ c.Where = Nil <=> c.whereBuilt = Nil
        /\ c.WhereDocument = Nil <=> c.documentBuilt = Nil}

QueryCalls ==
    {c \in [made : {TRUE}, op : {"query"}, collectionName : {"docs"},
            queryTexts : {<<>>, <<"x">>},
            QueryEmbeddings : {Nil} \cup {List(e) : e \in EmbeddingLists},
            embFunc : EmbFuncs,
            Where : {Nil, SomeWhere}, whereBuilt : {Nil} \cup WhereBuilds,
            WhereDocument : {Nil, SomeWhereDocument},
            documentBuilt : {Nil} \cup DocumentBuilds,
            nResults : {5}, distance : {"cosine"}] :
        /\ c.Where = Nil <=> c.whereBuilt = Nil
        /\ c.WhereDocument = Nil <=> c.documentBuilt = Nil
        /\ c.QueryEmbeddings # Nil => c.embFunc = EmbFunc}

\* what Embed may return to collectionQuery: any number of vectors, or an
\* error; it is called for query texts without query embeddings only
QueryEmbedded(c) ==
    IF c.QueryEmbeddings = Nil /\ Len(c.queryTexts) > 0 /\ c.embFunc # Nil
    THEN {[vectors |-> e, err |-> NoError] : e \in EmbeddingLists}
            \cup {[vectors |-> <<>>, err |-> <<ErrEmbed>>]}
    ELSE {Nil}

SQLReturned(res, err) == [made |-> TRUE, res |-> res, err |-> err]

(***************************************************************************)
(* collectionGet is one step; collectionQuery is a step for its head, a    *)
(* step for each round of its loop, and a step for its return.             *)
(***************************************************************************)
CollectionGet ==
    /\ sqlpc = "idle"
    /\ \E c \in GetCalls, reply \in Replies(RowSeqs) :
        LET r == collectionGet(c, reply)
        IN  /\ sqlcall' = c
            /\ sent' = r.sent
            /\ sqlret' = SQLReturned(r.res, r.err)
    /\ sqlpc' = "done"
    /\ UNCHANGED <<embs, qi, partial, openRows>>
    /\ UNCHANGED otherThanSQL

QueryBegin ==
    /\ sqlpc = "idle"
    /\ \E c \in QueryCalls :
        \E embedded \in QueryEmbedded(c) :
        LET r == ResolveQueryEmbeddings(c, embedded)
        IN  /\ sqlcall' = c
            /\ IF r.err # NoError
               THEN /\ sqlpc' = "done"
                    /\ sqlret' = SQLReturned(Nil, r.err)
                    /\ UNCHANGED <<embs, partial>>
               ELSE /\ sqlpc' = "loop"
                    /\ embs' = r.embeddings
                    /\ partial' = NewQueryResult(Len(r.embeddings))
                    /\ UNCHANGED sqlret
    /\ UNCHANGED <<qi, sent, openRows>>
    /\ UNCHANGED otherThanSQL

QueryIterate ==
    /\ sqlpc = "loop"
    /\ qi <= Len(embs)
    /\ \E reply \in Replies(QueryRowSeqs) :
        LET r == QueryRound(sqlcall, embs[qi], reply)
        IN  /\ sent' = sent \o r.sent
            /\ openRows' = openRows + r.opened - r.closed
            /\ IF r.err # NoError
               THEN /\ sqlpc' = "done"
                    /\ sqlret' = SQLReturned(Nil, r.err)
                    /\ UNCHANGED <<qi, partial>>
               ELSE /\ partial' = [partial EXCEPT
                                    !.IDs[qi] = r.scanned.ids,
                                    !.Distances[qi] = r.scanned.distances,
                                    !.Documents[qi] = r.scanned.documents,
                                    !.Metadatas[qi] = r.scanned.metadatas,
                                    !.Embeddings[qi] = r.scanned.embeddings]
                    /\ qi' = qi + 1
                    /\ UNCHANGED <<sqlpc, sqlret>>
    /\ UNCHANGED <<sqlcall, embs>>
    /\ UNCHANGED otherThanSQL

QueryFinish ==
    /\ sqlpc = "loop"
    /\ qi > Len(embs)
    /\ sqlret' = SQLReturned(partial, NoError)
    /\ sqlpc' = "done"
    /\ UNCHANGED <<sqlcall, embs, qi, sent, partial, openRows>>
    /\ UNCHANGED otherThanSQL

\* the caller takes the result; the next call starts afresh
ReturnSQL ==
    /\ sqlpc = "done"
    /\ sqlpc' = "idle"
    /\ sqlcall' = NoCall /\ embs' = <<>> /\ qi' = 1
    /\ sent' = <<>> /\ partial' = <<>> /\ sqlret' = NoRet
    /\ UNCHANGED openRows
    /\ UNCHANGED otherThanSQL

NextSQL == CollectionGet \/ QueryBegin \/ QueryIterate \/ QueryFinish \/ ReturnSQL

SpecSQL == Init /\ [][NextSQL]_vars

(***************************************************************************)
(* Properties of the statements of collectionGet and collectionQuery.      *)
(***************************************************************************)
Count(tokens, t) == Cardinality({i \in 1..Len(tokens) : tokens[i] = t})

\* where a piece of text first stands in a statement; 0 when it does not
At(tokens, piece) ==
    LET places == {i \in 1..(Len(tokens) + 1 - Len(piece)) :
                        SubSeq(tokens, i, i + Len(piece) - 1) = piece}
    IN  IF Len(piece) = 0 \/ places = {} THEN 0
        ELSE CHOOSE i \in places : \A j \in places : i <= j

\* whether the builder made a clause that is not empty for a filter
ProducedClause(filter, built) ==
    filter # Nil /\ built.err = NoError /\ built.clause # <<>>

ClauseOf(filter, built) == IF ProducedClause(filter, built) THEN built.clause ELSE <<>>
ArgsOf(filter, built) == IF ProducedClause(filter, built) THEN built.args ELSE <<>>

IdsOf(c) == IF c.op = "get" THEN c.ids ELSE <<>>

\* the arguments that follow those of the filters
TailArgs(c) ==
    IF c.op = "get"
    THEN <<Num(IF c.Limit = 0 THEN DefaultLimit ELSE c.Limit), Num(c.Offset)>>
    ELSE <<Num(c.nResults)>>

\* C12: a statement of collectionGet or collectionQuery holds the WHERE
\* keyword, once, exactly when the id list, the metadata filter or the
\* document filter produced a clause that is not empty; a filter that is
\* nil or compiles to the empty clause adds no text (no condition is empty)
\* and no argument.
C12_WhereWhenClause ==
    \A i \in 1..Len(sent) :
        LET sql == sent[i].sql
            produced == \/ Len(IdsOf(sqlcall)) > 0
                        \/ ProducedClause(sqlcall.Where, sqlcall.whereBuilt)
                        \/ ProducedClause(sqlcall.WhereDocument, sqlcall.documentBuilt)
        IN  /\ Count(sql, "WHERE") = (IF produced THEN 1 ELSE 0)
            /\ \A j \in 1..(Len(sql) - 1) :
                    sql[j] \in {"WHERE", "AND"} => sql[j + 1] \notin {"AND", "LIMIT", "ORDER"}
            /\ Len(sent[i].args) =
                    Len(IdsOf(sqlcall))
                        + Len(ArgsOf(sqlcall.Where, sqlcall.whereBuilt))
                        + Len(ArgsOf(sqlcall.WhereDocument, sqlcall.documentBuilt))
                        + Len(TailArgs(sqlcall))

\* a filter that is not nil compiles to the empty clause, beside one that
\* produces a clause: the statement has WHERE and one condition
C12_Witness ==
    /\ sqlcall.made /\ Len(sent) > 0
    /\ sqlcall.Where # Nil /\ sqlcall.whereBuilt.err = NoError
    /\ sqlcall.whereBuilt.clause = <<>> /\ sqlcall.whereBuilt.args # <<>>
    /\ ProducedClause(sqlcall.WhereDocument, sqlcall.documentBuilt)
    /\ Count(sent[1].sql, "WHERE") = 1

C12_WitnessNoWhere ==
    /\ sqlcall.made /\ Len(sent) > 0
    /\ sqlcall.Where # Nil /\ sqlcall.whereBuilt.err = NoError
    /\ sqlcall.whereBuilt.clause = <<>>
    /\ Count(sent[1].sql, "WHERE") = 0

\* the clause of a builder call has as many placeholders as arguments
Balanced(filter, built) ==
    (filter # Nil /\ built.err = NoError) => Count(built.clause, "?") = Len(built.args)

\* the places of the pieces present, in the order given, ascend
Ascending(places) ==
    \A a, b \in 1..Len(places) :
        (a < b /\ places[a] > 0 /\ places[b] > 0) => places[a] < places[b]

\* C13: when the clauses of the filter builder have as many placeholders as
\* arguments, every statement sent has as many placeholders as arguments,
\* and the arguments are those of the ids, of the metadata filter, of the
\* document filter, and then limit and offset (the result limit, for
\* collectionQuery), the conditions standing in that order in the text.
C13_ArgsInPlaceholderOrder ==
    (/\ sqlcall.made
     /\ Balanced(sqlcall.Where, sqlcall.whereBuilt)
     /\ Balanced(sqlcall.WhereDocument, sqlcall.documentBuilt))
        => \A i \in 1..Len(sent) :
            LET sql == sent[i].sql
                whereClause == ClauseOf(sqlcall.Where, sqlcall.whereBuilt)
                documentClause == ClauseOf(sqlcall.WhereDocument, sqlcall.documentBuilt)
            IN  /\ Count(sql, "?") = Len(sent[i].args)
                /\ sent[i].args =
                        [j \in 1..Len(IdsOf(sqlcall)) |-> Str(IdsOf(sqlcall)[j])]
                            \o ArgsOf(sqlcall.Where, sqlcall.whereBuilt)
                            \o ArgsOf(sqlcall.WhereDocument, sqlcall.documentBuilt)
                            \o TailArgs(sqlcall)
                /\ whereClause # <<>> => At(sql, whereClause) > 0
                /\ documentClause # <<>> => At(sql, documentClause) > 0
                /\ Ascending(<<At(sql, <<FieldID, "IN">>), At(sql, whereClause),
                               At(sql, documentClause), At(sql, <<"LIMIT", "?">>)>>)

C13_Witness ==
    /\ sqlcall.made /\ sqlcall.op = "get" /\ Len(sent) = 1
    /\ Len(sqlcall.ids) = MaxIds
    /\ ProducedClause(sqlcall.Where, sqlcall.whereBuilt)
    /\ Len(sqlcall.whereBuilt.args) = 2
    /\ Count(sqlcall.whereBuilt.clause, "?") = 2
    /\ ProducedClause(sqlcall.WhereDocument, sqlcall.documentBuilt)
    /\ Len(sent[1].args) = MaxIds + 5

C13_WitnessQuery ==
    /\ sqlcall.made /\ sqlcall.op = "query" /\ Len(sent) = 2
    /\ ProducedClause(sqlcall.Where, sqlcall.whereBuilt)
    /\ Balanced(sqlcall.Where, sqlcall.whereBuilt)
    /\ ProducedClause(sqlcall.WhereDocument, sqlcall.documentBuilt)

\* the statement did not run to the end of its rows
StatementFailed(reply) == reply.err # NoError \/ reply.end # "eof"

QueryDone == sqlpc = "done" /\ sqlcall.made /\ sqlcall.op = "query" /\ sqlret.made

\* C15: a collectionQuery that succeeds returns five lists of one entry for
\* each query embedding, entry i holding the rows of the statement run for
\* embedding i; when the statement of an embedding fails, the call returns
\* the error and no result.
C15_OneResultSetPerEmbedding ==
    QueryDone
        => /\ sqlret.err = NoError
                => /\ Len(sent) = Len(embs)
                   /\ \A f \in {"IDs", "Distances", "Documents", "Metadatas", "Embeddings"} :
                        Len(sqlret.res[f]) = Len(embs)
                   /\ \A i \in 1..Len(embs) :
                        LET rows == sent[i].reply.rows
                        IN  /\ At(sent[i].sql, <<"'" \o vectorToString(embs[i]) \o "'">>) > 0
                            /\ sqlret.res.IDs[i] = [j \in 1..Len(rows) |-> rows[j].id]
                            /\ sqlret.res.Distances[i] = [j \in 1..Len(rows) |-> rows[j].distance]
                            /\ sqlret.res.Documents[i] = [j \in 1..Len(rows) |-> rows[j].document]
                            /\ Len(sqlret.res.Metadatas[i]) = Len(rows)
                            /\ Len(sqlret.res.Embeddings[i]) = Len(rows)
           /\ (\E i \in 1..Len(sent) : StatementFailed(sent[i].reply))
                => (sqlret.res = Nil /\ sqlret.err # NoError)

GetDone == sqlpc = "done" /\ sqlcall.made /\ sqlcall.op = "get" /\ sqlret.made

\* C28: the four lists of a GetResult have the same length, and entry i of
\* each of them belongs to row i of the statement: its id, its document, and
\* its metadata and embedding when their JSON parses.
C28_ListsAligned ==
    (GetDone /\ sqlret.err = NoError)
        => LET rows == sent[1].reply.rows
               res == sqlret.res
           IN  /\ Len(res.IDs) = Len(rows)
               /\ Len(res.Documents) = Len(rows)
               /\ Len(res.Metadatas) = Len(rows)
               /\ Len(res.Embeddings) = Len(rows)
               /\ \A i \in 1..Len(rows) :
                    /\ res.IDs[i] = rows[i].id
                    /\ res.Documents[i] = rows[i].document
                    /\ FromJSON(rows[i].metadataJSON).ok
                        => res.Metadatas[i] = FromJSON(rows[i].metadataJSON).v
                    /\ UnmarshalEmbedding(rows[i].embeddingJSON).ok
                        => res.Embeddings[i] = UnmarshalEmbedding(rows[i].embeddingJSON).v

\* C29: every rows handle collectionQuery obtains is closed before it goes
\* on to the next query embedding or returns: between two rounds of its
\* loop and after its return no handle is open.
C29_RowsClosed ==
    (sqlcall.made /\ sqlcall.op = "query") => openRows = 0

\* a call of two rounds: the rows of the first read to their end, the
\* scan of the second failing
C29_Witness ==
    /\ QueryDone /\ openRows = 0
    /\ Len(sent) = 2
    /\ sent[1].reply.err = NoError /\ sent[1].reply.end = "eof" /\ Len(sent[1].reply.rows) > 0
    /\ sent[2].reply.err = NoError /\ sent[2].reply.end = "scan"
    /\ sqlret.err = <<ErrScan>>

(***************************************************************************)
(* transformHybridSearchResults: the rows of a hybrid search to the        *)
(* result lists.  A cell is what Scan stores into an interface{}.          *)
(***************************************************************************)
\* strings.ToLower, on the column names of the model
ToLower(col) ==
    CASE col \in {"id", "ID", "Id"} -> "id"
      [] col \in {"_id", "_ID"} -> "_id"
      [] col \in {"distance", "Distance"} -> "distance"
      [] col \in {"_distance", "_DISTANCE"} -> "_distance"
      [] col \in {"score", "SCORE"} -> "score"
      [] col \in {"_score", "_Score"} -> "_score"
      [] col \in {"document", "Document"} -> "document"
      [] col \in {"metadata", "METADATA"} -> "metadata"
      [] OTHER -> col

\* colMap[strings.ToLower(col)] = i, for i ascending: the last column of a
\* name stays
ColMap(cols) ==
    [name \in {ToLower(cols[i]) : i \in 1..Len(cols)} |->
        CHOOSE i \in 1..Len(cols) :
            /\ ToLower(cols[i]) = name
            /\ \A j \in 1..Len(cols) : ToLower(cols[j]) = name => j <= i]

convertToString(v) ==
    CASE v.k = "nil" -> ""
      [] v.k = "str" -> v.v
      [] OTHER -> ToString(v.v)

\* fmt.Sscanf(val, "%f", &f), on the texts of the model
ScanFloat(text) ==
    CASE text = "1" -> 1 [] text = "2" -> 2 [] text = "3" -> 3 [] OTHER -> 0

convertToFloat64(v) ==
    CASE v.k = "nil" -> 0
      [] v.k = "num" -> v.v
      [] v.k = "str" -> ScanFloat(v.v)
      [] OTHER -> 0

\* (a variant that looks the names up as the database spelled them)
Aliased_CaseSensitive(cols, values, aliases) ==
    LET present == SelectSeq(aliases, LAMBDA a : \E i \in 1..Len(cols) : cols[i] = a)
    IN  IF Len(present) = 0 THEN Nil
        ELSE values[CHOOSE i \in 1..Len(cols) : cols[i] = Head(present)]

\* if idx, ok := colMap[a1]; ok {...} else if idx, ok := colMap[a2]; ...:
\* the cell of the first alias that is a column, Nil when none is
Aliased(cols, values, aliases) ==
    LET colMap == ColMap(cols)
        present == SelectSeq(aliases, LAMBDA a : a \in DOMAIN colMap)
    IN  IF Len(present) = 0 THEN Nil ELSE values[colMap[Head(present)]]

\* the body of the loop over the rows
TransformRow(cols, values) ==
    LET metadataStr == convertToString(Aliased(cols, values, <<"metadata">>))
        embStr == convertToString(Aliased(cols, values, <<"embedding">>))
    IN  [id |-> convertToString(Aliased(cols, values, <<"id", "_id">>)),
         distance |-> convertToFloat64(
                        Aliased(cols, values, <<"_distance", "distance", "_score", "score">>)),
         document |-> convertToString(Aliased(cols, values, <<"document">>)),
         metadata |-> IF metadataStr # "" /\ FromJSON(metadataStr).ok
                      THEN FromJSON(metadataStr).v ELSE EmptyMap,
         embedding |-> IF embStr # "" /\ UnmarshalEmbedding(embStr).ok
                       THEN UnmarshalEmbedding(embStr).v ELSE <<>>]

transformHybridSearchResults(rows) ==
    IF rows.colsErr # NoError
    THEN [res |-> Nil, err |-> <<"failed to get columns">> \o rows.colsErr]
    ELSE IF rows.end = "scan"
    THEN [res |-> Nil, err |-> <<"failed to scan row", ErrScan>>]
    ELSE LET out == [r \in 1..Len(rows.cells) |-> TransformRow(rows.cols, rows.cells[r])]
         IN  [res |-> [IDs |-> [r \in 1..Len(out) |-> out[r].id],
                       Distances |-> [r \in 1..Len(out) |-> out[r].distance],
                       Documents |-> [r \in 1..Len(out) |-> out[r].document],
                       Metadatas |-> [r \in 1..Len(out) |-> out[r].metadata],
                       Embeddings |-> [r \in 1..Len(out) |-> out[r].embedding]],
              err |-> NoError]

\* the column names the database may give, in the spellings it may give
ColumnNames ==
    {"id", "ID", "_id", "_ID", "distance", "_distance", "_DISTANCE", "score", "SCORE",
     "_score", "document", "METADATA", "embedding"}

ColumnLists ==
    {cols \in SeqsUpTo(ColumnNames, MaxCols) :
        \A i, j \in 1..Len(cols) : cols[i] = cols[j] => i = j}

\* the cell of row r in column i: a number in the distance and score
\* columns of the first row and a text in those of the second, JSON texts
\* in the metadata and embedding columns, a text elsewhere
Cell(r, i, col) ==
    CASE ToLower(col) \in {"distance", "_distance", "score", "_score"} ->
            IF r = 1 THEN Num(10 * i) ELSE Str(ToString(i))
      [] ToLower(col) = "metadata" -> Str("{\"tag\":\"ml\"}")
      [] ToLower(col) = "embedding" -> Str("[1]")
      [] OTHER -> Str("r" \o ToString(r) \o "c" \o ToString(i))

HybridRows ==
    {[made |-> TRUE, cols |-> <<>>, cells |-> <<>>, end |-> "eof", colsErr |-> <<ErrQuery>>]}
        \cup {[made |-> TRUE, cols |-> cols, colsErr |-> NoError, end |-> e,
               cells |-> [r \in 1..n |-> [i \in 1..Len(cols) |-> Cell(r, i, cols[i])]]] :
                cols \in ColumnLists, n \in 0..MaxRows, e \in {"eof", "err", "scan"}}

TransformRows ==
    /\ hspc = "idle"
    /\ \E rows \in HybridRows :
        LET r == transformHybridSearchResults(rows)
        IN  /\ hsrows' = rows
            /\ hsret' = SQLReturned(r.res, r.err)
    /\ hspc' = "done"
    /\ UNCHANGED otherThanTransform

\* the caller takes the result; the next call starts afresh
ReturnTransform ==
    /\ hspc = "done"
    /\ hspc' = "idle"
    /\ hsrows' = NoCall /\ hsret' = NoRet
    /\ UNCHANGED otherThanTransform

NextTransform == TransformRows \/ ReturnTransform

SpecTransform == Init /\ [][NextTransform]_vars

(***************************************************************************)
(* Properties of transformHybridSearchResults.                             *)
(***************************************************************************)
\* the cells of row r in the columns whose name, whatever its letter case,
\* is the given one
CellsNamed(name, r) ==
    {hsrows.cells[r][i] : i \in {j \in 1..Len(hsrows.cols) : ToLower(hsrows.cols[j]) = name}}

\* the cells of the first of the aliases that is a column of the rows
RECURSIVE FirstNamed(_, _)
FirstNamed(aliases, r) ==
    IF Len(aliases) = 0 THEN {}
    ELSE IF CellsNamed(Head(aliases), r) # {} THEN CellsNamed(Head(aliases), r)
    ELSE FirstNamed(Tail(aliases), r)

\* C14: the columns are found whatever their letter case; the id of a row
\* is the cell of column id, else of _id, its distance the cell of
\* _distance, else distance, else _score, else score; a column that is
\* missing gives the zero value of its field, and no error.
C14_AliasedColumns ==
    (hsrows.made /\ hsrows.colsErr = NoError /\ hsrows.end # "scan")
        => /\ hsret.err = NoError
           /\ \A f \in {"IDs", "Distances", "Documents", "Metadatas", "Embeddings"} :
                Len(hsret.res[f]) = Len(hsrows.cells)
           /\ \A r \in 1..Len(hsrows.cells) :
                LET ids == FirstNamed(<<"id", "_id">>, r)
                    distances == FirstNamed(<<"_distance", "distance", "_score", "score">>, r)
                IN  /\ IF ids = {} THEN hsret.res.IDs[r] = ""
                       ELSE \E v \in ids : hsret.res.IDs[r] = convertToString(v)
                    /\ IF distances = {} THEN hsret.res.Distances[r] = 0
                       ELSE \E v \in distances : hsret.res.Distances[r] = convertToFloat64(v)
                    /\ CellsNamed("document", r) = {} => hsret.res.Documents[r] = ""
                    /\ CellsNamed("metadata", r) = {} => hsret.res.Metadatas[r] = EmptyMap
                    /\ CellsNamed("embedding", r) = {} => hsret.res.Embeddings[r] = <<>>

\* upper-case ID beside _id, and an upper-case score column alone
C14_Witness ==
    /\ hsrows.made /\ hsret.made /\ hsret.err = NoError
    /\ Len(hsrows.cells) = 2
    /\ \E i, j \in 1..Len(hsrows.cols) :
        /\ hsrows.cols[i] = "ID" /\ hsrows.cols[j] = "_id"
        /\ hsret.res.IDs[1] = convertToString(hsrows.cells[1][i])
    /\ \E i \in 1..Len(hsrows.cols) :
        /\ hsrows.cols[i] = "SCORE"
        /\ hsret.res.Distances[1] = 10 * i
    /\ hsret.res.Documents[1] = ""

(***************************************************************************)
(* AdminClient (src/admin_client.go) on a connected client whose server    *)
(* answers every statement. CreateDatabase and DeleteDatabase print the    *)
(* name into the statement text; HasDatabase and GetDatabase bind it as a  *)
(* parameter. A name is held as the pieces of its text, so that the two    *)
(* ways of handing it to the server can differ.                            *)
(***************************************************************************)
ErrDatabaseNotFound == "ErrDatabaseNotFound"
ErrSyntax == "syntax error"

\* the pieces of a name's text that are no word: the quote of an identifier,
\* and a hyphen
Backquote == "backquote"
Hyphen == "-"

\* the server reading the text that follows CREATE / DROP DATABASE IF [NOT]
\* EXISTS: a bare word or a backquoted word names a schema, anything else is
\* refused
ParseIdentifier(text) ==
    IF Len(text) = 1 /\ text[1] \notin {Backquote, Hyphen}
    THEN [ok |-> TRUE, name |-> text]
    ELSE IF Len(text) = 3 /\ text[1] = Backquote /\ text[3] = Backquote /\ text[2] \notin {Backquote, Hyphen}
    THEN [ok |-> TRUE, name |-> <<text[2]>>]
    ELSE [ok |-> FALSE, name |-> <<>>]

CreateSQL(name) == <<"CREATE", "DATABASE", "IF", "NOT", "EXISTS">> \o name
DropSQL(name) == <<"DROP", "DATABASE", "IF", "EXISTS">> \o name

\* conn.Execute of either statement against the schemas the server holds
ServerExecute(schemas, stmt) ==
    LET create == stmt[1] = "CREATE"
        id == ParseIdentifier(SubSeq(stmt, IF create THEN 6 ELSE 5, Len(stmt)))
    IN  IF ~id.ok THEN [schemas |-> schemas, err |-> <<ErrSyntax>>]
        ELSE [schemas |-> IF create THEN schemas \cup {id.name} ELSE schemas \ {id.name},
              err |-> NoError]

\* the names handed to the AdminClient: two plain ones, one of them also in
\* backquotes, and one the server refuses
DatabaseNames == {<<"db1">>, <<Backquote, "db1", Backquote>>, <<"db2">>, <<"db", Hyphen, "1">>}

AdminEntry(op, name, err, has, names) ==
    [op |-> op, name |-> name, err |-> err, has |-> has, names |-> names]

CreateDatabase ==
    /\ Len(adminLog) < MaxCalls
    /\ \E name \in DatabaseNames :
        LET r == ServerExecute(schemata, CreateSQL(name))
        IN  /\ schemata' = r.schemas
            /\ adminLog' = Append(adminLog,
                    IF r.err # NoError
                    THEN AdminEntry("CreateDatabase", name,
                                    <<"failed to create database">> \o r.err, FALSE, <<>>)
                    ELSE AdminEntry("CreateDatabase", name, NoError, FALSE, <<name>>))
    /\ UNCHANGED otherThanAdmin

DeleteDatabase ==
    /\ Len(adminLog) < MaxCalls
    /\ \E name \in DatabaseNames :
        LET r == ServerExecute(schemata, DropSQL(name))
        IN  /\ schemata' = r.schemas
            /\ adminLog' = Append(adminLog,
                    IF r.err # NoError
                    THEN AdminEntry("DeleteDatabase", name,
                                    <<"failed to delete database">> \o r.err, FALSE, <<>>)
                    ELSE AdminEntry("DeleteDatabase", name, NoError, FALSE, <<>>))
    /\ UNCHANGED otherThanAdmin

\* SELECT COUNT(*) ... WHERE SCHEMA_NAME = ?, the name bound as a value
HasDatabase ==
    /\ Len(adminLog) < MaxCalls
    /\ \E name \in DatabaseNames :
        LET count == Cardinality({s \in schemata : s = name})
        IN  adminLog' = Append(adminLog,
                AdminEntry("HasDatabase", name, NoError, count > 0, <<>>))
    /\ UNCHANGED <<schemata, otherThanAdmin>>

\* SELECT SCHEMA_NAME ... WHERE SCHEMA_NAME = ?; Scan fails when no row came
GetDatabase ==
    /\ Len(adminLog) < MaxCalls
    /\ \E name \in DatabaseNames :
        LET found == {s \in schemata : s = name}
        IN  adminLog' = Append(adminLog,
                IF found = {}
                THEN AdminEntry("GetDatabase", name, <<ErrDatabaseNotFound>>, FALSE, <<>>)
                ELSE AdminEntry("GetDatabase", name, NoError, FALSE,
                                <<CHOOSE s \in found : TRUE>>))
    /\ UNCHANGED <<schemata, otherThanAdmin>>

\* the listing carries no ORDER BY: the rows come in any order; LIMIT and
\* OFFSET are added when positive, and a server may refuse OFFSET without
\* LIMIT
ListDatabases ==
    /\ Len(adminLog) < MaxCalls
    /\ \E limit \in 0..1, offset \in 0..1, refused \in BOOLEAN,
          rows \in Perms(schemata \ SystemSchemas) :
        LET from == IF offset > 0 THEN offset + 1 ELSE 1
            rest == SubSeq(rows, from, Len(rows))
            page == IF limit > 0 /\ Len(rest) > limit THEN SubSeq(rest, 1, limit) ELSE rest
        IN  /\ refused => (offset > 0 /\ limit = 0)
            /\ adminLog' = Append(adminLog,
                    IF refused
                    THEN AdminEntry("ListDatabases", <<>>,
                                    <<"failed to list databases", ErrSyntax>>, FALSE, <<>>)
                    ELSE AdminEntry("ListDatabases", <<>>, NoError, FALSE, page))
    /\ UNCHANGED <<schemata, otherThanAdmin>>

NextAdmin ==
    \/ CreateDatabase
    \/ DeleteDatabase
    \/ HasDatabase
    \/ GetDatabase
    \/ ListDatabases

SpecAdmin == Init /\ [][NextAdmin]_vars

\* the successful CreateDatabase / DeleteDatabase calls on name before call i
Changes(name, i) ==
    {j \in 1..(i - 1) : /\ adminLog[j].op \in {"CreateDatabase", "DeleteDatabase"}
                        /\ adminLog[j].name = name
                        /\ adminLog[j].err = NoError}

LastChange(name, i) ==
    IF Changes(name, i) = {} THEN "none"
    ELSE adminLog[CHOOSE j \in Changes(name, i) : \A k \in Changes(name, i) : k <= j].op

\* C16: over any sequence of AdminClient calls on a connected client,
\* HasDatabase(n) is true and GetDatabase(n) returns a database named n
\* exactly when the last successful CreateDatabase / DeleteDatabase on n was
\* a create; a listing holds no name whose last successful operation was a
\* delete; creating a database that exists and deleting one that does not
\* return no error.
C16_DatabaseLifecycle ==
    \A i \in 1..Len(adminLog) :
        LET e == adminLog[i]
            created == LastChange(e.name, i) = "CreateDatabase"
        IN  /\ e.op = "HasDatabase" => (e.has <=> created)
            /\ e.op = "GetDatabase" => ((e.err = NoError /\ e.names = <<e.name>>) <=> created)
            /\ (e.op = "ListDatabases" /\ e.err = NoError)
                => \A n \in DatabaseNames :
                     LastChange(n, i) = "DeleteDatabase"
                        => \A k \in 1..Len(e.names) : e.names[k] # n
            /\ (e.op = "CreateDatabase" /\ created) => e.err = NoError
            /\ (e.op = "DeleteDatabase" /\ ~created) => e.err = NoError

(***************************************************************************)
(* The two implementations of connection.Connection                        *)
(* (src/internal/connection): RemoteConnection, which holds a *sql.DB      *)
(* once Connect has opened and pinged one, and EmbeddedConnection, whose   *)
(* methods are stubs. The calls are made one after the other.              *)
(***************************************************************************)
ErrNotConnected == "not connected"
ErrNotImplemented == "embedded mode not implemented"
ErrDriver == "driver error"

\* RemoteConnection.Connect on a connection whose db is d, hs being the
\* handles opened so far; outcome is what sql.Open and PingContext do
ConnectRemote_KeepsUnpinged(d, hs, outcome) ==
    IF d # 0 THEN [db |-> d, handles |-> hs, err |-> NoError]
    ELSE IF outcome = "open fails"
    THEN [db |-> 0, handles |-> hs, err |-> <<"failed to open connection", ErrDriver>>]
    ELSE IF outcome = "ping fails"
    THEN [db |-> Len(hs) + 1, handles |-> Append(hs, "closed"),
          err |-> <<"failed to ping database", ErrDriver>>]
    ELSE [db |-> Len(hs) + 1, handles |-> Append(hs, "open"), err |-> NoError]

ConnectRemote(d, hs, outcome) ==
    IF d # 0 THEN [db |-> d, handles |-> hs, err |-> NoError]
    ELSE IF outcome = "open fails"
    THEN [db |-> 0, handles |-> hs, err |-> <<"failed to open connection", ErrDriver>>]
    ELSE IF outcome = "ping fails"
    THEN [db |-> 0, handles |-> Append(hs, "closed"),
          err |-> <<"failed to ping database", ErrDriver>>]
    ELSE [db |-> Len(hs) + 1, handles |-> Append(hs, "open"), err |-> NoError]

\* RemoteConnection.Close; closeErr is what db.Close() returns
CloseRemote(d, hs, closeErr) ==
    IF d = 0 THEN [db |-> 0, handles |-> hs, err |-> NoError]
    ELSE [db |-> 0, handles |-> [hs EXCEPT ![d] = "closed"], err |-> closeErr]

\* the guard Execute, Query and Begin share, then what the *sql.DB returns
UseRemote(d, dbErr) == IF d = 0 THEN <<ErrNotConnected>> ELSE dbErr

DriverErrs == {NoError, <<ErrDriver>>}

ConnEntry(conn, op, err) == [conn |-> conn, op |-> op, err |-> err]

RemoteConnect ==
    /\ Len(connLog) < MaxCalls
    /\ \E outcome \in {"open fails", "ping fails", "ok"} :
        LET r == ConnectRemote(db, handles, outcome)
        IN  /\ db' = r.db
            /\ handles' = r.handles
            /\ connLog' = Append(connLog, ConnEntry("remote", "Connect", r.err))
    /\ UNCHANGED <<connected, otherThanConn>>

RemoteClose ==
    /\ Len(connLog) < MaxCalls
    /\ \E closeErr \in DriverErrs :
        LET r == CloseRemote(db, handles, closeErr)
        IN  /\ db' = r.db
            /\ handles' = r.handles
            /\ connLog' = Append(connLog, ConnEntry("remote", "Close", r.err))
    /\ UNCHANGED <<connected, otherThanConn>>

RemoteExecute ==
    /\ Len(connLog) < MaxCalls
    /\ \E dbErr \in DriverErrs :
        connLog' = Append(connLog, ConnEntry("remote", "Execute", UseRemote(db, dbErr)))
    /\ UNCHANGED <<db, handles, connected, otherThanConn>>

RemoteQuery ==
    /\ Len(connLog) < MaxCalls
    /\ \E dbErr \in DriverErrs :
        connLog' = Append(connLog, ConnEntry("remote", "Query", UseRemote(db, dbErr)))
    /\ UNCHANGED <<db, handles, connected, otherThanConn>>

RemoteBegin ==
    /\ Len(connLog) < MaxCalls
    /\ \E dbErr \in DriverErrs :
        connLog' = Append(connLog, ConnEntry("remote", "Begin", UseRemote(db, dbErr)))
    /\ UNCHANGED <<db, handles, connected, otherThanConn>>

\* EmbeddedConnection.Connect: what it leaves in connected, and returns
ConnectEmbedded_Connects(c) == [connected |-> TRUE, err |-> NoError]

ConnectEmbedded(c) ==
    IF c THEN [connected |-> c, err |-> NoError]
    ELSE [connected |-> c,
          err |-> <<"embedded mode not implemented: requires CGo bindings to libseekdb">>]

\* the body Execute, Query and Begin share
UseEmbedded(c) == IF ~c THEN <<ErrNotConnected>> ELSE <<ErrNotImplemented>>

IsConnected == connected

EmbeddedConnect ==
    /\ Len(connLog) < MaxCalls
    /\ connected' = ConnectEmbedded(connected).connected
    /\ connLog' = Append(connLog,
            ConnEntry("embedded", "Connect", ConnectEmbedded(connected).err))
    /\ UNCHANGED <<db, handles, otherThanConn>>

EmbeddedClose ==
    /\ Len(connLog) < MaxCalls
    /\ connected' = FALSE
    /\ connLog' = Append(connLog, ConnEntry("embedded", "Close", NoError))
    /\ UNCHANGED <<db, handles, otherThanConn>>

EmbeddedExecute ==
    /\ Len(connLog) < MaxCalls
    /\ connLog' = Append(connLog, ConnEntry("embedded", "Execute", UseEmbedded(connected)))
    /\ UNCHANGED <<db, handles, connected, otherThanConn>>

EmbeddedQuery ==
    /\ Len(connLog) < MaxCalls
    /\ connLog' = Append(connLog, ConnEntry("embedded", "Query", UseEmbedded(connected)))
    /\ UNCHANGED <<db, handles, connected, otherThanConn>>

EmbeddedBegin ==
    /\ Len(connLog) < MaxCalls
    /\ connLog' = Append(connLog, ConnEntry("embedded", "Begin", UseEmbedded(connected)))
    /\ UNCHANGED <<db, handles, connected, otherThanConn>>

NextConn ==
    \/ RemoteConnect
    \/ RemoteClose
    \/ RemoteExecute
    \/ RemoteQuery
    \/ RemoteBegin
    \/ EmbeddedConnect
    \/ EmbeddedClose
    \/ EmbeddedExecute
    \/ EmbeddedQuery
    \/ EmbeddedBegin

SpecConn == Init /\ [][NextConn]_vars

\* the calls made on the remote connection, in order
RECURSIVE OnRemote(_)
OnRemote(log) ==
    IF log = <<>> THEN <<>>
    ELSE IF Head(log).conn = "remote" THEN <<Head(log)>> \o OnRemote(Tail(log))
    ELSE OnRemote(Tail(log))

\* a Connect has returned nil before call i of log, and no Close was called
\* between the last such Connect and call i
ConnectedBefore(log, i) ==
    \E j \in 1..(i - 1) :
        /\ log[j].op = "Connect" /\ log[j].err = NoError
        /\ \A k \in (j + 1)..(i - 1) : log[k].op # "Close"

\* C17: over any sequence of calls on a RemoteConnection, Execute, Query and
\* Begin return the 'not connected' error exactly when no Connect has
\* succeeded since the connection was made or last closed; a Connect that
\* fails leaves the connection unconnected; Connect on a connected
\* connection and Close on an unconnected one return nil and change nothing.
C17_NotConnectedExactly ==
    LET log == OnRemote(connLog)
    IN  /\ \A i \in 1..Len(log) :
            /\ log[i].op \in {"Execute", "Query", "Begin"}
                => (log[i].err = <<ErrNotConnected>> <=> ~ConnectedBefore(log, i))
            /\ (log[i].op = "Connect" /\ ConnectedBefore(log, i)) => log[i].err = NoError
            /\ (log[i].op = "Close" /\ ~ConnectedBefore(log, i)) => log[i].err = NoError
        /\ (db # 0) <=> ConnectedBefore(log, Len(log) + 1)
        /\ db # 0 => (db \in 1..Len(handles) /\ handles[db] = "open")
        /\ \A h \in 1..Len(handles) : handles[h] = "open" => h = db

\* a Connect whose ping fails, Execute refused, then a Connect that succeeds
C17_Witness ==
    LET log == OnRemote(connLog)
    IN  /\ Len(log) = 3
        /\ log[1].op = "Connect" /\ log[1].err = <<"failed to ping database", ErrDriver>>
        /\ log[2].op = "Execute" /\ log[2].err = <<ErrNotConnected>>
        /\ log[3].op = "Connect" /\ log[3].err = NoError
        /\ db = 2 /\ handles = <<"closed", "open">>

\* Connect on a connected connection, then Query let through to the driver
C17_WitnessConnected ==
    LET log == OnRemote(connLog)
    IN  /\ Len(log) = 3
        /\ log[1].op = "Connect" /\ log[1].err = NoError
        /\ log[2].op = "Connect" /\ log[2].err = NoError /\ Len(handles) = 1
        /\ log[3].op = "Query" /\ log[3].err = <<ErrDriver>>

\* a Close whose db.Close() fails, then Begin refused
C17_WitnessClosed ==
    LET log == OnRemote(connLog)
    IN  /\ Len(log) = 3
        /\ log[1].op = "Connect" /\ log[1].err = NoError
        /\ log[2].op = "Close" /\ log[2].err = <<ErrDriver>>
        /\ log[3].op = "Begin" /\ log[3].err = <<ErrNotConnected>>

\* the calls made on the embedded connection, in order
RECURSIVE OnEmbedded(_)
OnEmbedded(log) ==
    IF log = <<>> THEN <<>>
    ELSE IF Head(log).conn = "embedded" THEN <<Head(log)>> \o OnEmbedded(Tail(log))
    ELSE OnEmbedded(Tail(log))

\* C18: in every state an EmbeddedConnection reaches through Connect, Close,
\* Execute, Query and Begin, IsConnected is false, and every Connect,
\* Execute, Query and Begin made so far has returned an error.
C18_EmbeddedUnsupported ==
    /\ ~IsConnected
    /\ \A i \in 1..Len(OnEmbedded(connLog)) :
        OnEmbedded(connLog)[i].op \in {"Connect", "Execute", "Query", "Begin"}
            => OnEmbedded(connLog)[i].err # NoError

\* Connect refused, then a statement refused, then Close
C18_Witness ==
    LET log == OnEmbedded(connLog)
    IN  /\ Len(log) = 3
        /\ log[1].op = "Connect" /\ log[1].err # NoError
        /\ log[2].op \in {"Execute", "Query", "Begin"} /\ log[2].err = <<ErrNotConnected>>
        /\ log[3].op = "Close" /\ log[3].err = NoError
        /\ ~IsConnected

(***************************************************************************)
(* collectionHybridSearch (src/client_query.go): the request is built,     *)
(* then a transaction carries SET @search_parm, the GET_SQL lookup and the *)
(* query it returns.  The log holds every call made on the embedding       *)
(* function, the connection, the transaction and the rows, in order.  A    *)
(* transaction is that of database/sql: Commit and Rollback finish it      *)
(* whether they return an error or not, and do nothing to a finished one.  *)
(***************************************************************************)
\* out is what the call handed back beside its error, where that matters:
\* the text of GET_SQL, the rows of the returned query
Event(ev, tx, err, out) == [ev |-> ev, tx |-> tx, err |-> err, out |-> out]

EmptyHybridResult ==
    [IDs |-> <<>>, Distances |-> <<>>, Documents |-> <<>>, Metadatas |-> <<>>,
     Embeddings |-> <<>>]

\* tx.Commit() / tx.Rollback() on a transaction in state tx
Finish(tx, done, err) ==
    IF tx # "active" THEN tx ELSE IF err # NoError THEN "failed" ELSE done

\* (a variant that leaves the transaction to its own devices)
Deferred_NoRollback(log, tx, rowsOpen, rollbackErr) ==
    [log |-> log \o (IF rowsOpen THEN <<Event("rows.Close", tx, NoError, Nil)>> ELSE <<>>),
     tx |-> tx]

\* the deferred calls, run at the return in the reverse of their order:
\* rows.Close() when the rows were obtained, then tx.Rollback()
Deferred(log, tx, rowsOpen, rollbackErr) ==
    [log |-> log \o (IF rowsOpen THEN <<Event("rows.Close", tx, NoError, Nil)>> ELSE <<>>)
                 \o <<Event("Rollback", tx, IF tx = "active" THEN rollbackErr ELSE <<"ErrTxDone">>, Nil)>>,
     tx |-> Finish(tx, "rolled back", rollbackErr)]

\* (a variant that opens the transaction first and builds the request in it)
BuildFailed_InTransaction(embeds, err) ==
    [log |-> <<Event("Begin", "none", NoError, Nil)>> \o embeds
                \o <<Event("Rollback", "active", NoError, Nil)>>,
     tx |-> "rolled back", res |-> Nil, err |-> <<"failed to build search_parm">> \o err]

\* the return on a failed build
BuildFailed(embeds, err) ==
    [log |-> embeds, tx |-> "none", res |-> Nil,
     err |-> <<"failed to build search_parm">> \o err]

\* the function from tx.Execute(setSQL) to its return statement, without
\* the deferred calls; env is what the transaction and the rows do
InTransaction(env) ==
    LET set == <<Event("SET", "active", env.set, Nil)>>
        getSQL == <<Event("GET_SQL", "active",
                          IF env.getSQL = "error" THEN <<ErrScan>> ELSE NoError,
                          Str(env.getSQL))>>
        query == <<Event("QUERY", "active", env.query,
                         IF env.query = NoError THEN env.rows ELSE Nil)>>
        t == transformHybridSearchResults(env.rows)
    IN  IF env.set # NoError
        THEN [log |-> set, tx |-> "active", rowsOpen |-> FALSE, res |-> Nil,
              err |-> <<"failed to set search_parm">> \o env.set]
        ELSE IF env.getSQL = "error"
        THEN [log |-> set \o getSQL, tx |-> "active", rowsOpen |-> FALSE, res |-> Nil,
              err |-> <<"failed to get SQL from DBMS_HYBRID_SEARCH.GET_SQL", ErrScan>>]
        ELSE IF env.getSQL \in {"NULL", "empty"}
        THEN [log |-> set \o getSQL, tx |-> "active", rowsOpen |-> FALSE,
              res |-> EmptyHybridResult, err |-> NoError]
        ELSE IF env.query # NoError
        THEN [log |-> set \o getSQL \o query, tx |-> "active", rowsOpen |-> FALSE,
              res |-> Nil, err |-> <<"failed to execute hybrid search query">> \o env.query]
        ELSE IF t.err # NoError
        THEN [log |-> set \o getSQL \o query, tx |-> "active", rowsOpen |-> TRUE,
              res |-> Nil, err |-> t.err]
        ELSE [log |-> set \o getSQL \o query \o <<Event("Commit", "active", env.commit, Nil)>>,
              tx |-> Finish("active", "committed", env.commit),
              rowsOpen |-> TRUE,
              res |-> IF env.commit # NoError THEN Nil ELSE t.res,
              err |-> IF env.commit # NoError
                      THEN <<"failed to commit transaction">> \o env.commit
                      ELSE NoError]

\* the function after its call of buildSearchParm, which gave b
AfterBuild(b, env) ==
    LET embeds == [i \in 1..Len(b.embedCalls) |-> Event("Embed", "none", b.embedCalls[i].returned.err, Nil)]
    IN  IF b.err # NoError THEN BuildFailed(embeds, b.err)
        ELSE IF env.begin # NoError
        THEN [log |-> embeds \o <<Event("Begin", "none", env.begin, Nil)>>, tx |-> "none",
              res |-> Nil, err |-> <<"failed to begin transaction">> \o env.begin]
        ELSE LET body == InTransaction(env)
                 d == Deferred(embeds \o <<Event("Begin", "none", NoError, Nil)>> \o body.log,
                               body.tx, body.rowsOpen, env.rollback)
             IN  [log |-> d.log, tx |-> d.tx, res |-> body.res, err |-> body.err]

collectionHybridSearch(c, embedded, order, env) ==
    AfterBuild(buildSearchParm(c.query, c.knn, c.rank, c.nResults, c.embFunc, embedded, order),
               env)

\* the rows the returned query gives: no columns to be had, or one row of
\* an id and a distance, read to its end, broken off, or failing in Scan
SearchRows ==
    {[made |-> TRUE, cols |-> <<>>, cells |-> <<>>, end |-> "eof", colsErr |-> <<ErrQuery>>]}
        \cup {[made |-> TRUE, cols |-> <<"id", "_distance">>, colsErr |-> NoError, end |-> e,
               cells |-> <<<<Cell(1, 1, "id"), Cell(1, 2, "_distance")>>>>] :
                e \in {"eof", "err", "scan"}}

\* the rows that have no columns to give
NoRows == CHOOSE r \in SearchRows : r.cols = <<>>

\* what the connection, the transaction and the rows do in one call; a step
\* the call never comes to, because an earlier one failed, has one outcome
Environments ==
    {env \in [begin : DriverErrs, set : DriverErrs,
              getSQL : {"error", "NULL", "empty", "sql"}, query : DriverErrs,
              rows : SearchRows, commit : DriverErrs, rollback : DriverErrs] :
        /\ env.begin # NoError => (env.set = NoError /\ env.rollback = NoError)
        /\ (env.begin # NoError \/ env.set # NoError) => env.getSQL = "sql"
        /\ (env.begin # NoError \/ env.set # NoError \/ env.getSQL # "sql")
                => env.query = NoError
        /\ (env.begin # NoError \/ env.set # NoError \/ env.getSQL # "sql"
                \/ env.query # NoError)
                => (env.rows = NoRows /\ env.commit = NoError)}

\* the calls of the hybrid search: a full-text query or none, any of the
\* knn arguments without a filter, no rank
HybridCalls ==
    {c \in Calls :
        /\ c.rank = Nil /\ c.nResults = 5
        /\ c.query # Nil => (c.query.WhereDocument = Contains("machine").v
                                /\ c.query.Where = EmptyMap)
        /\ c.knn # Nil => (c.knn.Where = EmptyMap /\ c.knn.NResults = 5)}

CollectionHybridSearch ==
    /\ hypc = "idle"
    /\ \E c \in HybridCalls, order \in FieldOrders, env \in Environments :
        \E embedded \in Embedded(c) :
        \E r \in {collectionHybridSearch(c, embedded, order, env)} :
            /\ hycall' = c
            /\ hylog' = r.log
            /\ hytx' = r.tx
            /\ hyret' = SQLReturned(r.res, r.err)
    /\ hypc' = "done"
    /\ UNCHANGED otherThanHybrid

\* the caller takes the result; the next call starts afresh
ReturnHybrid ==
    /\ hypc = "done"
    /\ hypc' = "idle"
    /\ hycall' = NoCall /\ hylog' = <<>> /\ hytx' = "none" /\ hyret' = NoRet
    /\ UNCHANGED otherThanHybrid

NextHybrid == CollectionHybridSearch \/ ReturnHybrid

SpecHybrid == Init /\ [][NextHybrid]_vars

(***************************************************************************)
(* Properties of collectionHybridSearch.                                   *)
(***************************************************************************)
Events(ev) == {i \in 1..Len(hylog) : hylog[i].ev = ev}

Statements == {"SET", "GET_SQL", "QUERY"}

\* the build of the request failed: the call returned its error
BuildFailure == hyret.made /\ Len(hyret.err) > 0 /\ hyret.err[1] = "failed to build search_parm"

\* C24: when the build of the search parameter fails, collectionHybridSearch
\* returns that error, wrapped, without beginning a transaction and without
\* sending a statement, and calls Embed no more than once.
C24_BuildErrorIsTerminal ==
    /\ hypc = "done"
        => \A order \in FieldOrders, embedded \in Embedded(hycall) :
            LET b == buildSearchParm(hycall.query, hycall.knn, hycall.rank, hycall.nResults,
                                     hycall.embFunc, embedded, order)
            IN  (b.err # NoError /\ (\A i \in Events("Embed") : hylog[i].err = embedded.err))
                    => BuildFailure
    /\ BuildFailure
        => /\ hyret.res = Nil
           /\ Events("Begin") = {} /\ hytx = "none"
           /\ \A i \in 1..Len(hylog) : hylog[i].ev = "Embed"
           /\ Cardinality(Events("Embed")) <= 1
           /\ \E order \in FieldOrders, embedded \in Embedded(hycall) :
                hyret.err = <<"failed to build search_parm">>
                    \o buildSearchParm(hycall.query, hycall.knn, hycall.rank, hycall.nResults,
                                       hycall.embFunc, embedded, order).err

\* an Embed that fails: called once, no transaction, the error returned
C24_Witness ==
    /\ hypc = "done" /\ BuildFailure
    /\ Cardinality(Events("Embed")) = 1
    /\ Is(hyret.err, ErrEmbed)
    /\ hytx = "none"

C24_WitnessNoFunction ==
    /\ hypc = "done" /\ BuildFailure
    /\ Is(hyret.err, ErrEmbeddingFunctionRequired)
    /\ hylog = <<>>

\* the statements of the log, in the order they were issued
StatementsOf(log) == SelectSeq(log, LAMBDA e : e.ev \in Statements)

IsPrefix(p, q) == Len(p) <= Len(q) /\ \A i \in 1..Len(p) : p[i] = q[i]

Began == \E i \in Events("Begin") : hylog[i].err = NoError

\* SET, the GET_SQL lookup, the returned query and the transformation of
\* its rows all succeeded
AllSucceeded ==
    /\ \E i \in Events("SET") : hylog[i].err = NoError
    /\ \E i \in Events("GET_SQL") : hylog[i].err = NoError /\ hylog[i].out = Str("sql")
    /\ \E i \in Events("QUERY") :
        /\ hylog[i].err = NoError
        /\ transformHybridSearchResults(hylog[i].out).err = NoError

\* C25: a transaction that collectionHybridSearch has begun is finished when
\* the call returns: Commit is called exactly when SET, GET_SQL, the
\* returned query and the transformation all succeeded, and Rollback is
\* called on the open transaction otherwise, the return with empty results
\* on a NULL or empty GET_SQL included; the statements are issued in the
\* order SET, GET_SQL, returned query, each on the open transaction.
C25_TransactionFinished ==
    hypc = "done"
        => /\ Cardinality(Events("Begin")) <= 1
           /\ ~Began => (hytx = "none" /\ StatementsOf(hylog) = <<>>
                            /\ Events("Commit") = {} /\ Events("Rollback") = {})
           /\ Began
                => /\ hytx \in {"committed", "rolled back", "failed"}
                   /\ Events("Commit") # {} <=> AllSucceeded
                   /\ Cardinality(Events("Commit")) <= 1
                   /\ hytx = "committed"
                        <=> \E i \in Events("Commit") : hylog[i].err = NoError
                   /\ Events("Commit") = {}
                        => \E i \in Events("Rollback") : hylog[i].tx = "active"
                   /\ (hyret.res # Nil /\ hyret.res # EmptyHybridResult)
                        => hytx = "committed"
           /\ IsPrefix([i \in 1..Len(StatementsOf(hylog)) |-> StatementsOf(hylog)[i].ev],
                       <<"SET", "GET_SQL", "QUERY">>)
           /\ \A i \in 1..Len(hylog) :
                /\ hylog[i].ev \in Statements \cup {"Commit"} => hylog[i].tx = "active"
                /\ hylog[i].ev \in Statements
                    => \E j \in 1..(i - 1) : hylog[j].ev = "Begin" /\ hylog[j].err = NoError

\* the whole path: the three statements, the rows transformed, the commit
C25_Witness ==
    /\ hypc = "done" /\ Began /\ AllSucceeded
    /\ hytx = "committed"
    /\ hyret.err = NoError /\ Len(hyret.res.IDs) = 1
    /\ Len(StatementsOf(hylog)) = 3

\* GET_SQL yields NULL: empty results, no error, the transaction rolled back
C25_WitnessNull ==
    /\ hypc = "done" /\ Began
    /\ \E i \in Events("GET_SQL") : hylog[i].out = Str("NULL")
    /\ hyret.err = NoError /\ hyret.res = EmptyHybridResult
    /\ hytx = "rolled back"
    /\ Events("Commit") = {}

(***************************************************************************)
(* RemoteConnection.Connect and Close called by several goroutines on one  *)
(* connection.  The methods take no lock: each read and each write of r.db *)
(* is a step of its own, and the steps of the goroutines interleave.       *)
(***************************************************************************)
Goroutines == 1..MaxGoroutines

Running == \A g \in Goroutines : routines[g].pc # "panicked"

Stands(g, where) == Running /\ routines[g].pc = where

Goto(g, where, local) == routines' = [routines EXCEPT ![g] = [pc |-> where, local |-> local]]

\* Connect, `if r.db != nil { return nil }`
ConnectCheck(g) ==
    /\ Stands(g, "idle")
    /\ db = 0
    /\ Goto(g, "open", 0)
    /\ UNCHANGED <<db, handles, otherThanRace>>

\* Connect, sql.Open
ConnectOpen(g) ==
    /\ Stands(g, "open")
    /\ \/ /\ Len(handles) < MaxHandles
          /\ handles' = Append(handles, "open")
          /\ Goto(g, "ping", Len(handles) + 1)
       \/ /\ Goto(g, "idle", 0)
          /\ UNCHANGED handles
    /\ UNCHANGED <<db, otherThanRace>>

\* Connect, db.PingContext, and db.Close() when it fails
ConnectPing(g) ==
    /\ Stands(g, "ping")
    /\ \/ /\ Goto(g, "store", routines[g].local)
          /\ UNCHANGED handles
       \/ /\ handles' = [handles EXCEPT ![routines[g].local] = "closed"]
          /\ Goto(g, "idle", 0)
    /\ UNCHANGED <<db, otherThanRace>>

\* Connect, `r.db = db`
ConnectStore(g) ==
    /\ Stands(g, "store")
    /\ db' = routines[g].local
    /\ Goto(g, "idle", 0)
    /\ UNCHANGED <<handles, otherThanRace>>

\* Close, `if r.db == nil { return nil }`
CloseCheck(g) ==
    /\ Stands(g, "idle")
    /\ db # 0
    /\ Goto(g, "close", 0)
    /\ UNCHANGED <<db, handles, otherThanRace>>

\* Close, `err := r.db.Close()`: r.db is read again, and a nil r.db makes
\* the call panic
CloseCall(g) ==
    /\ Stands(g, "close")
    /\ IF db = 0
       THEN /\ Goto(g, "panicked", 0)
            /\ UNCHANGED handles
       ELSE /\ handles' = [handles EXCEPT ![db] = "closed"]
            /\ Goto(g, "clear", 0)
    /\ UNCHANGED <<db, otherThanRace>>

\* Close, `r.db = nil`
CloseClear(g) ==
    /\ Stands(g, "clear")
    /\ db' = 0
    /\ Goto(g, "idle", 0)
    /\ UNCHANGED <<handles, otherThanRace>>

NextRace ==
    \E g \in Goroutines :
        \/ ConnectCheck(g)
        \/ ConnectOpen(g)
        \/ ConnectPing(g)
        \/ ConnectStore(g)
        \/ CloseCheck(g)
        \/ CloseCall(g)
        \/ CloseClear(g)

SpecRace == Init /\ [][NextRace]_vars

\* a handle that is open, is not the one the connection holds, and is in
\* the hands of no goroutine that is still to ping or store it
Leaked(h) ==
    /\ handles[h] = "open"
    /\ db # h
    /\ \A g \in Goroutines :
        ~(routines[g].pc \in {"ping", "store"} /\ routines[g].local = h)

\* C30: however the Connect and Close calls of several goroutines on one
\* connection interleave, no handle that was opened is left neither stored
\* in the connection nor closed.
C30_NoLeakedHandle ==
    \A h \in 1..Len(handles) : ~Leaked(h)

====
